---- MODULE Spec2Model ----
(***************************************************************************)
(* Verification model of graffic/wanon-go: the message cache (package      *)
(* cache: AddCommand, EditCommand over table cache_entries) and the quote  *)
(* thread builder (package quotes: Builder.BuildFrom over table            *)
(* cache_entry).                                                           *)
(*                                                                         *)
(* A database round trip is one atomic step.  AddCommand.Execute and       *)
(* EditCommand.Execute are a SELECT followed by a write, so each is two    *)
(* steps of a process; Builder.BuildFrom is one SELECT per loop iteration, *)
(* so each iteration is one step.                                          *)
(***************************************************************************)
EXTENDS Integers, Sequences, FiniteSets, TLC

(***************************************************************************)
(* Bounds of the model.                                                    *)
(***************************************************************************)
MaxMsg == 2        \* cached message ids are 1..MaxMsg
MaxSeq == 2        \* last value a BIGSERIAL id sequence hands out
MaxTicks == 2      \* ticks the ticker of Cleaner.Start sends
MaxCleanOnce == 2  \* calls of CleanOnce
MaxEntries == 2    \* longest entry list given to Store
MaxOutCh == 2      \* capacity of the channel between the poller and its reader

\* The ids the sequence of table quote hands out.
QuoteIds == {1, 2}

\* Two concurrent handler invocations.
Procs == {"p1", "p2"}
\* Two chats: the one a request is made in, and another one.
Chats == {1, 2}
MsgIds == 1..MaxMsg

\* A walk of BuildFrom is cut off after this many collected entries; longer
\* than any chain without repetition, so only a cyclic walk is ever cut off.
MaxWalk == MaxMsg + 2

(***************************************************************************)
(* Values.                                                                 *)
(***************************************************************************)
\* A nil *int64 / SQL NULL in the reply_id column; a nil *Message reply.
NULL == -1

\* A nil *User.
NilUser == "nil"

Texts == {"", "a", "b"}
Users == {NilUser, "u1", "u2"}
Dates == {10, 20}

\* cache.Message as (un)marshalled by encoding/json.  text "" is the
\* omitted "text" key (omitempty), from NilUser the omitted "from" key,
\* reply_to NULL the omitted "reply_to_message" key.
Message(id, chat, date, text, from, reply) ==
    [message_id |-> id, chat |-> chat, date |-> date, text |-> text,
     from |-> from, reply_to |-> reply]

\* The zero cache.Message.
ZeroMessage == Message(0, 0, 0, "", NilUser, NULL)

\* A row of a cache table (cache.CacheEntry / quotes.CacheEntry).
Row(id, chat, msgid, reply, date, message) ==
    [id |-> id, chat_id |-> chat, message_id |-> msgid, reply_id |-> reply,
     date |-> date, message |-> message]

\* The zero CacheEntry: what `var entry CacheEntry` holds when no row is found.
NoRow == Row(0, 0, 0, NULL, 0, ZeroMessage)

\* A json.RawMessage handed to a command: a document that parses into the
\* fields below, or one that json.Unmarshal rejects.
Raw(id, chat, date, text, from, reply) ==
    [parseable |-> TRUE, message_id |-> id, chat |-> chat, date |-> date,
     text |-> text, from |-> from, reply_to |-> reply]

Malformed == [parseable |-> FALSE, message_id |-> 0, chat |-> 0, date |-> 0,
              text |-> "", from |-> NilUser, reply_to |-> NULL]

\* A json.Unmarshal that reports no error.
UnmarshalErr_Ignored(raw) == "nil"

\* The error of json.Unmarshal(rawMessage, ...): none for a document that
\* parses.
UnmarshalErr(raw) == IF raw.parseable THEN "nil" ELSE "unmarshal"

\* json.Unmarshal(rawMessage, &msg) for cache.Message.
UnmarshalMessage(raw) ==
    Message(raw.message_id, raw.chat, raw.date, raw.text, raw.from, raw.reply_to)

\* json.Unmarshal(rawMessage, &editedMsg) for cache.EditedMessage: the struct
\* has no reply_to_message field, so that key of the document is dropped.
UnmarshalEditedMessage(raw) ==
    Message(raw.message_id, raw.chat, raw.date, raw.text, raw.from, NULL)

\* What a handler returned: the handler, its error ("nil" for none), the key
\* and the parsed message it was called with, and BuildFrom's
\* BuildResult.Entries.
Ret(op, err, chat, msgid, message, entries) ==
    [op |-> op, err |-> err, chat_id |-> chat, message_id |-> msgid,
     message |-> message, entries |-> entries]

NoRet == Ret("none", "nil", 0, 0, ZeroMessage, <<>>)

VARIABLES
    cache_entries,      \* rows of table cache_entries (package cache)
    cache_entries_seq,  \* next value of cache_entries.id (BIGSERIAL)
    cache_entry,        \* rows of table cache_entry (package quotes)
    cache_entry_seq,    \* next value of cache_entry.id (BIGSERIAL)
    pc,                 \* where each process is
    req,                \* the entry a process is writing
    found,              \* the row a process's SELECT returned
    walk,               \* BuildFrom's locals: chatID, messageID, currentID, entries
    ret,                \* what each process's last handler returned; NoRet
                        \* while a handler is running
    now,                \* time.Now().Unix()
    ctx_done,           \* the context given to Cleaner.Start is cancelled
    cleaner,            \* Cleaner.Start: position, sweeps run, ticks received,
                        \* the last sweep's error, what Start returned
    ticker,             \* Start's ticker: ticks sent, a tick waiting in ticker.C
    once,               \* CleanOnce: calls made, the last call's error
    quote,              \* committed rows of table quote
    quote_seq,          \* next value of quote.id
    quote_entry,        \* committed rows of table quote_entry
    quote_entry_seq,    \* next value of quote_entry.id
    store,              \* Store.Store: each process's locals and transaction
    addquote,           \* AddQuoteHandler.Handle: each process's locals and
                        \* what it sent or returned
    reader,             \* GetByID, GetRandomForChat, CountForChat: each
                        \* process's query in progress and its result
    rendered,           \* the last call of the Renderer and its result
    chatfilter,         \* the ChatFilter middleware: its configuration, the
                        \* last update and what was done with it
    dispatcher,         \* the Dispatcher: its allowlist, the last update and
                        \* what was done with it
    poller,             \* Updates.Start: where it is, its locals and what it
                        \* returned
    outCh               \* Updates.outCh: the batches sent and not yet received

cleanerVars == <<now, ctx_done, cleaner, ticker, once>>
quoteVars == <<quote, quote_seq, quote_entry, quote_entry_seq, store>>
pollerVars == <<poller, outCh>>
handlerVars == <<addquote, reader, rendered, chatfilter, dispatcher, pollerVars>>

vars == <<cache_entries, cache_entries_seq, cache_entry, cache_entry_seq,
          pc, req, found, walk, ret, cleanerVars, quoteVars, handlerVars>>

cacheVars == <<cache_entries, cache_entries_seq>>
builderVars == <<cache_entry, cache_entry_seq>>

NoWalk == [chatID |-> 0, messageID |-> 0, currentID |-> 0, entries |-> <<>>,
           stable |-> TRUE]

\* Config.KeepDuration, in seconds.
KeepDuration == 10

\* The instants at which the clock is read.  With KeepDuration = 10 an entry
\* dated 10 is one second younger than the cutoff at 19, at the cutoff at 20
\* and older than it at 21; an entry dated 20 is older than the cutoff at 31.
Times == {19, 20, 21, 31}

\* Cleaner.Start before it is called.
NoCleaner == [pc |-> "idle", sweeps |-> 0, received |-> 0, err |-> "none",
              ret |-> "none"]

\* The ticker before time.NewTicker.
NoTicker == [sent |-> 0, pending |-> FALSE]

\* Store.Store before it is called.
NoStore == [pc |-> "idle", chatID |-> 0, creator |-> NilUser, entries |-> <<>>,
            quote_id |-> 0, i |-> 0, tx |-> {}, loaded |-> <<>>,
            err |-> "none"]

\* AddQuoteHandler.Handle before it is called: nothing sent, nothing returned.
NoOut == [kind |-> "none", quote_id |-> 0, count |-> 0]
NoAddQuote == [pc |-> "idle", chatID |-> 0, creator |-> NilUser,
               reply |-> ZeroMessage, miss |-> FALSE, out |-> NoOut]

\* No quote: the nil *Quote.
NoQuote == [id |-> 0, creator |-> NilUser, chat_id |-> 0, entries |-> <<>>]

\* A reader before its call.
NoReader == [pc |-> "idle", op |-> "none", arg |-> 0, quote |-> NoQuote,
             count |-> 0, err |-> "none"]

\* The Renderer before its first call.
NoRendered == [fn |-> "none", quote |-> NoQuote, includeID |-> FALSE,
               first |-> "", last |-> "", username |-> "",
               text |-> "", count |-> 0, err |-> "none"]

\* No update.
NoUpdate == [kind |-> "none", chat |-> 0, text |-> <<>>]

\* The chat filter and the dispatcher before they are built.
NoChatFilter == [built |-> FALSE, allowed |-> {}, autoLeave |-> FALSE,
                 update |-> NoUpdate, next |-> FALSE, left |-> FALSE]
NoDispatcher == [built |-> FALSE, allowed |-> {}, update |-> NoUpdate,
                 handled |-> FALSE, executed |-> FALSE]

\* Updates.Start before it is called.
NoPoller == [pc |-> "idle", offset |-> 0, updates |-> <<>>, ret |-> "none",
             at |-> "none"]

Init ==
    /\ poller = NoPoller
    /\ outCh = <<>>
    /\ addquote = [p \in Procs |-> NoAddQuote]
    /\ reader = [p \in Procs |-> NoReader]
    /\ rendered = NoRendered
    /\ chatfilter = NoChatFilter
    /\ dispatcher = NoDispatcher
    /\ now = 19
    /\ ctx_done = FALSE
    /\ cleaner = NoCleaner
    /\ ticker = NoTicker
    /\ once = [calls |-> 0, err |-> "none"]
    /\ quote = {}
    /\ quote_seq = 1
    /\ quote_entry = {}
    /\ quote_entry_seq = 1
    /\ store = [p \in Procs |-> NoStore]
    /\ cache_entries = {}
    /\ cache_entries_seq = 1
    /\ cache_entry = {}
    /\ cache_entry_seq = 1
    /\ pc = [p \in Procs |-> "idle"]
    /\ req = [p \in Procs |-> NoRow]
    /\ found = [p \in Procs |-> NoRow]
    /\ walk = [p \in Procs |-> NoWalk]
    /\ ret = [p \in Procs |-> NoRet]

(***************************************************************************)
(* Database primitives.                                                    *)
(***************************************************************************)
\* Rows of a table under a key.
RowsAt(table, chatID, messageID) ==
    {r \in table : r.chat_id = chatID /\ r.message_id = messageID}

\* The row with the least primary key of a non-empty set (ORDER BY id LIMIT 1).
FirstById(rows) == CHOOSE r \in rows : \A s \in rows : r.id <= s.id

\* First with the chat_id condition lost: the first row with that message id
\* in any chat.
First_AnyChat(table, chatID, messageID) ==
    IF {r \in table : r.message_id = messageID} = {} THEN NoRow
    ELSE FirstById({r \in table : r.message_id = messageID})

\* db.Where("chat_id = ? AND message_id = ?", ...).First(&entry): the row, or
\* NoRow for gorm.ErrRecordNotFound.
First(table, chatID, messageID) ==
    IF RowsAt(table, chatID, messageID) = {} THEN NoRow
    ELSE FirstById(RowsAt(table, chatID, messageID))

\* The table without its unique index: no INSERT is rejected.
UniqueViolation_NoIndex(table, chatID, messageID) == FALSE

\* The unique index on (chat_id, message_id) rejects an INSERT of this key.
UniqueViolation(table, chatID, messageID) ==
    RowsAt(table, chatID, messageID) # {}


(***************************************************************************)
(* Cache Ingest: AddCommand.Execute.                                       *)
(***************************************************************************)
\* The entry built from the parsed message; entry.Message is json.Marshal(msg).
NewEntry(msg) ==
    Row(0, msg.chat, msg.message_id, msg.reply_to, msg.date, msg)

\* Assign without the "reply_id" key: the reply link of the row found stays.
AssignAttrs_NoReplyID(row, entry) ==
    [row EXCEPT !.date = entry.date, !.message = entry.message]

\* Assign(map{"reply_id", "date", "message"}) applied to the row found.
AssignAttrs(row, entry) ==
    [row EXCEPT !.reply_id = entry.reply_id, !.date = entry.date,
                !.message = entry.message]

\* tx.Model(dest).Updates(assigns): UPDATE ... WHERE id = dest.ID.  No row with
\* that primary key: no row changes, and no error.
UpdateAssigns(table, id, entry) ==
    {IF r.id = id THEN AssignAttrs(r, entry) ELSE r : r \in table}

\* Execute up to the SELECT of FirstOrCreate.
AddExecuteCall(p, raw) ==
    /\ pc[p] = "idle"
    /\ IF UnmarshalErr(raw) # "nil"
       THEN /\ ret' = [ret EXCEPT ![p] = Ret("add", "unmarshal", 0, 0, ZeroMessage, <<>>)]
            /\ UNCHANGED <<pc, req, found>>
       ELSE LET entry == NewEntry(UnmarshalMessage(raw)) IN
            /\ req' = [req EXCEPT ![p] = entry]
            /\ found' = [found EXCEPT ![p] =
                            First(cache_entries, entry.chat_id, entry.message_id)]
            /\ pc' = [pc EXCEPT ![p] = "add_write"]
            /\ ret' = [ret EXCEPT ![p] = NoRet]
    /\ UNCHANGED <<cacheVars, builderVars, walk, cleanerVars, quoteVars>>

\* AddCommand.Execute called on its own.
AddExecute(p, raw) ==
    /\ AddExecuteCall(p, raw)
    /\ UNCHANGED handlerVars

\* The write of FirstOrCreate: Create when the SELECT found no row, Updates of
\* the row found otherwise; then Execute returns.
AddExecuteWrite(p) ==
    /\ pc[p] = "add_write"
    /\ IF found[p].id = 0
       THEN /\ cache_entries_seq <= MaxSeq
            /\ cache_entries_seq' = cache_entries_seq + 1
            /\ IF UniqueViolation(cache_entries, req[p].chat_id, req[p].message_id)
               THEN /\ UNCHANGED cache_entries
                    /\ ret' = [ret EXCEPT ![p] =
                          Ret("add", "unique_violation", req[p].chat_id,
                              req[p].message_id, req[p].message, <<>>)]
               ELSE /\ cache_entries' = cache_entries \cup
                          {[req[p] EXCEPT !.id = cache_entries_seq]}
                    /\ ret' = [ret EXCEPT ![p] =
                          Ret("add", "nil", req[p].chat_id, req[p].message_id,
                              req[p].message, <<>>)]
       ELSE /\ cache_entries' =
                  UpdateAssigns(cache_entries, found[p].id, req[p])
            /\ UNCHANGED cache_entries_seq
            /\ ret' = [ret EXCEPT ![p] =
                  Ret("add", "nil", req[p].chat_id, req[p].message_id,
                              req[p].message, <<>>)]
    /\ pc' = [pc EXCEPT ![p] = "idle"]
    /\ req' = [req EXCEPT ![p] = NoRow]
    /\ found' = [found EXCEPT ![p] = NoRow]
    /\ UNCHANGED <<builderVars, walk, cleanerVars, quoteVars, handlerVars>>

(***************************************************************************)
(* Cache Edit: EditCommand.Execute.                                        *)
(***************************************************************************)
\* The stored message with the edit applied: Text always, From when the edit
\* carries one.
EditMerge(existingMsg, editedMsg) ==
    [existingMsg EXCEPT
        !.text = editedMsg.text,
        !.from = IF editedMsg.from # NilUser THEN editedMsg.from ELSE @]

\* gorm.ErrRecordNotFound passed on to the caller instead of being skipped.
EditNotFoundErr_Propagated == "not_found"

\* What Execute returns when the SELECT finds no entry: nil, the edit is skipped.
EditNotFoundErr == "nil"

\* The UPDATE done as an upsert: a row is inserted when none has the primary
\* key.
UpdateMessage_Save(table, id, message) ==
    IF \E r \in table : r.id = id
    THEN {IF r.id = id THEN [r EXCEPT !.message = message] ELSE r : r \in table}
    ELSE table \cup {Row(id, message.chat, message.message_id,
                         message.reply_to, message.date, message)}

\* The UPDATE keyed by message_id alone instead of the primary key.
UpdateMessage_ByMessageID(table, id, message) ==
    {IF \E k \in table : k.id = id /\ k.message_id = r.message_id
     THEN [r EXCEPT !.message = message] ELSE r : r \in table}

\* db.Model(&entry).Updates(map{"message": updatedJSON}): UPDATE ... WHERE
\* id = entry.ID.  No row with that primary key: no row changes, and no error.
UpdateMessage(table, id, message) ==
    {IF r.id = id THEN [r EXCEPT !.message = message] ELSE r : r \in table}

\* Execute up to the SELECT of the existing entry.
EditExecuteCall(p, raw) ==
    /\ pc[p] = "idle"
    /\ IF UnmarshalErr(raw) # "nil"
       THEN /\ ret' = [ret EXCEPT ![p] = Ret("edit", "unmarshal", 0, 0, ZeroMessage, <<>>)]
            /\ UNCHANGED <<pc, req, found>>
       ELSE LET editedMsg == UnmarshalEditedMessage(raw)
                entry == First(cache_entries, editedMsg.chat, editedMsg.message_id)
            IN  IF entry.id = 0
                THEN /\ ret' = [ret EXCEPT ![p] =
                           Ret("edit", EditNotFoundErr, editedMsg.chat,
                               editedMsg.message_id, editedMsg, <<>>)]
                     /\ UNCHANGED <<pc, req, found>>
                ELSE /\ req' = [req EXCEPT ![p] =
                           Row(0, editedMsg.chat, editedMsg.message_id, NULL, 0,
                               editedMsg)]
                     /\ found' = [found EXCEPT ![p] = entry]
                     /\ pc' = [pc EXCEPT ![p] = "edit_write"]
                     /\ ret' = [ret EXCEPT ![p] = NoRet]
    /\ UNCHANGED <<cacheVars, builderVars, walk, cleanerVars, quoteVars>>

\* EditCommand.Execute called on its own.
EditExecute(p, raw) ==
    /\ EditExecuteCall(p, raw)
    /\ UNCHANGED handlerVars

\* The write done with the attributes of the edit assigned to the row, as
\* Add does: reply_id and date are written too.
EditExecuteWrite_Assigns(p) ==
    /\ pc[p] = "edit_write"
    /\ cache_entries' =
          UpdateAssigns(cache_entries, found[p].id,
                        [req[p] EXCEPT !.date = req[p].message.date,
                                       !.message = EditMerge(found[p].message,
                                                             req[p].message)])
    /\ ret' = [ret EXCEPT ![p] =
          Ret("edit", "nil", req[p].chat_id, req[p].message_id, req[p].message,
              <<>>)]
    /\ pc' = [pc EXCEPT ![p] = "idle"]
    /\ req' = [req EXCEPT ![p] = NoRow]
    /\ found' = [found EXCEPT ![p] = NoRow]
    /\ UNCHANGED <<cache_entries_seq, builderVars, walk, cleanerVars, quoteVars, handlerVars>>

\* The merge of the stored message and the UPDATE of the entry's message
\* column; then Execute returns.
EditExecuteWrite(p) ==
    /\ pc[p] = "edit_write"
    /\ cache_entries' =
          UpdateMessage(cache_entries, found[p].id,
                        EditMerge(found[p].message, req[p].message))
    /\ ret' = [ret EXCEPT ![p] =
          Ret("edit", "nil", req[p].chat_id, req[p].message_id, req[p].message,
              <<>>)]
    /\ pc' = [pc EXCEPT ![p] = "idle"]
    /\ req' = [req EXCEPT ![p] = NoRow]
    /\ found' = [found EXCEPT ![p] = NoRow]
    /\ UNCHANGED <<cache_entries_seq, builderVars, walk, cleanerVars, quoteVars, handlerVars>>

\* Service.Edit up to the SELECT of the existing entry; no entry found returns
\* nil.
ServiceEdit(p, msg) ==
    /\ pc[p] = "idle"
    /\ LET entry == First(cache_entries, msg.chat, msg.message_id)
       IN  IF entry.id = 0
           THEN /\ ret' = [ret EXCEPT ![p] =
                      Ret("service_edit", "nil", msg.chat, msg.message_id, msg,
                          <<>>)]
                /\ UNCHANGED <<pc, req, found>>
           ELSE /\ req' = [req EXCEPT ![p] =
                      Row(0, msg.chat, msg.message_id, NULL, 0, msg)]
                /\ found' = [found EXCEPT ![p] = entry]
                /\ pc' = [pc EXCEPT ![p] = "service_edit_write"]
                /\ ret' = [ret EXCEPT ![p] = NoRet]
    /\ UNCHANGED <<cacheVars, builderVars, walk, cleanerVars, quoteVars, handlerVars>>

\* Service.Edit from json.Marshal(msg) on: the UPDATE of the entry's message
\* column with the whole edited message.
ServiceEditWrite(p) ==
    /\ pc[p] = "service_edit_write"
    /\ cache_entries' = UpdateMessage(cache_entries, found[p].id, req[p].message)
    /\ ret' = [ret EXCEPT ![p] =
          Ret("service_edit", "nil", req[p].chat_id, req[p].message_id,
              req[p].message, <<>>)]
    /\ pc' = [pc EXCEPT ![p] = "idle"]
    /\ req' = [req EXCEPT ![p] = NoRow]
    /\ found' = [found EXCEPT ![p] = NoRow]
    /\ UNCHANGED <<cache_entries_seq, builderVars, walk, cleanerVars, quoteVars, handlerVars>>

(***************************************************************************)
(* Thread Builder: Builder.BuildFrom over table cache_entry.               *)
(***************************************************************************)
\* The message of a row inserted directly into cache_entry.
FixtureMessage(chat, msgid, reply) ==
    Message(msgid, chat, 10, "a", "u1", reply)

\* db.Create(&quotes.CacheEntry{...}): the only writer of table cache_entry.
\* A walk in progress is marked as no longer reading a fixed table.
CreateCacheEntry(chat, msgid, reply) ==
    /\ cache_entry_seq <= MaxSeq
    /\ cache_entry_seq' = cache_entry_seq + 1
    /\ IF UniqueViolation(cache_entry, chat, msgid)
       THEN UNCHANGED <<cache_entry, walk>>
       ELSE /\ cache_entry' = cache_entry \cup
                  {Row(cache_entry_seq, chat, msgid, reply, 10,
                       FixtureMessage(chat, msgid, reply))}
            /\ walk' = [p \in Procs |->
                          IF pc[p] = "build_loop"
                          THEN [walk[p] EXCEPT !.stable = FALSE] ELSE walk[p]]
    /\ UNCHANGED <<cacheVars, pc, req, found, ret, cleanerVars, quoteVars, handlerVars>>

\* The error of one statement: none, or one the database reports.
DbErrs == {"nil", "db"}

\* A loop that continues with the message it has just collected.
FollowReply_Self(entry) == entry.message_id

\* The message id the loop continues with after collecting entry; 0 to stop.
FollowReply(entry) ==
    IF entry.reply_id # NULL /\ entry.reply_id # 0 THEN entry.reply_id ELSE 0

\* Prepend with the operands swapped: the older entry goes last.
Prepend_Appends(entry, entries) == entries \o <<entry>>

\* entries = append([]CacheEntry{entry}, entries...): the older entry goes first.
Prepend(entry, entries) == <<entry>> \o entries

\* BuildResult without the len(entries) == 0 check.
BuildResult_EmptyOk(chatID, messageID, entries) ==
    Ret("build", "nil", chatID, messageID, ZeroMessage, entries)

\* What BuildFrom returns once the loop has ended.
BuildResult(chatID, messageID, entries) ==
    IF Len(entries) = 0
    THEN Ret("build", "not_found", chatID, messageID, ZeroMessage, <<>>)
    ELSE Ret("build", "nil", chatID, messageID, ZeroMessage, entries)

\* BuildFrom is called: entries empty, currentID := messageID.
BuildFromCall(p, chatID, messageID) ==
    /\ pc[p] = "idle"
    /\ pc' = [pc EXCEPT ![p] = "build_loop"]
    /\ walk' = [walk EXCEPT ![p] =
          [chatID |-> chatID, messageID |-> messageID, currentID |-> messageID,
           entries |-> <<>>, stable |-> TRUE]]
    /\ ret' = [ret EXCEPT ![p] = NoRet]
    /\ UNCHANGED <<cacheVars, builderVars, req, found, cleanerVars>>

\* BuildFrom called on its own.
BuildFrom(p, chatID, messageID) ==
    /\ BuildFromCall(p, chatID, messageID)
    /\ UNCHANGED <<quoteVars, handlerVars>>

\* The error of a failed lookup with the entries collected so far.
LookupFailed_KeepsEntries(chatID, messageID, entries) ==
    Ret("build", "db", chatID, messageID, ZeroMessage, entries)

\* What BuildFrom returns when a lookup fails with an error that is not
\* ErrRecordNotFound: nil and the wrapped error.
LookupFailed(chatID, messageID, entries) ==
    Ret("build", "db", chatID, messageID, ZeroMessage, <<>>)

\* One iteration of the loop: the condition, the SELECT, the prepend and the
\* choice between following the reply link and leaving the loop; leaving the
\* loop, or on an error of the SELECT, BuildFrom returns.  After a failed
\* SELECT walk[p] keeps what the locals held at the return.
BuildFromLoop(p) ==
    /\ pc[p] = "build_loop"
    /\ Len(walk[p].entries) < MaxWalk
    /\ \E err \in IF walk[p].currentID = 0 THEN {"nil"} ELSE DbErrs :
        LET w == walk[p]
            entry == IF w.currentID = 0 THEN NoRow
                     ELSE First(cache_entry, w.chatID, w.currentID)
            entries == IF entry.id = 0 THEN w.entries ELSE Prepend(entry, w.entries)
            next == IF entry.id = 0 THEN 0 ELSE FollowReply(entry)
        IN  IF err # "nil"
            THEN /\ UNCHANGED walk
                 /\ pc' = [pc EXCEPT ![p] = "idle"]
                 /\ ret' = [ret EXCEPT ![p] =
                       LookupFailed(w.chatID, w.messageID, w.entries)]
            ELSE IF next # 0
            THEN /\ walk' = [walk EXCEPT ![p].currentID = next,
                                         ![p].entries = entries]
                 /\ UNCHANGED <<pc, ret>>
            ELSE /\ walk' = [walk EXCEPT ![p] = NoWalk]
                 /\ pc' = [pc EXCEPT ![p] = "idle"]
                 /\ ret' = [ret EXCEPT ![p] =
                       BuildResult(w.chatID, w.messageID, entries)]
    /\ UNCHANGED <<cacheVars, builderVars, req, found, cleanerVars, quoteVars, handlerVars>>

(***************************************************************************)
(* Cache Evictor: Cleaner.clean, CleanOnce and the loop of Cleaner.Start   *)
(* over table cache_entries.                                               *)
(***************************************************************************)
\* cutoff := time.Now().Add(-KeepDuration).Unix()
Cutoff(t) == t - KeepDuration

\* The DELETE with the comparison turned round.
DeleteWhereDateBefore_After(table, cutoff) == {r \in table : ~(r.date > cutoff)}

\* Where("date < ?", cutoff).Delete(&CacheEntry{}): the rows left in the table.
DeleteWhereDateBefore(table, cutoff) == {r \in table : ~(r.date < cutoff)}

\* result.Error of the DELETE: a cancelled context makes the statement fail
\* before it runs; otherwise it succeeds or the database reports an error.
CleanErrs(cancelled) == IF cancelled THEN {"canceled"} ELSE {"nil", "db"}

\* The table after clean: a failed DELETE removes nothing.
clean(table, t, err) ==
    IF err = "nil" THEN DeleteWhereDateBefore(table, Cutoff(t)) ELSE table

\* CleanOnce(ctx), called with a context of its own.
CleanOnce ==
    /\ once.calls < MaxCleanOnce
    /\ \E err \in CleanErrs(FALSE) :
          /\ cache_entries' = clean(cache_entries, now, err)
          /\ once' = [calls |-> once.calls + 1, err |-> err]
    /\ UNCHANGED <<cache_entries_seq, builderVars, pc, req, found, walk, ret,
                   now, ctx_done, cleaner, ticker, quoteVars, handlerVars>>

\* Start going straight to the loop.
AfterStart_NoInitialClean == "select"

\* Where Start goes after its first log line: the initial cleanup.
AfterStart == "initial_clean"

\* Start returning the error of a failed cleanup.
AfterClean_ReturnsOnError(err) == IF err = "nil" THEN "select" ELSE "returned"

\* Where Start goes after a cleanup: the error is logged and the loop goes on.
AfterClean(err) == "select"

\* Start is called.
Start ==
    /\ cleaner.pc = "idle"
    /\ cleaner' = [cleaner EXCEPT !.pc = AfterStart]
    /\ UNCHANGED <<cacheVars, builderVars, pc, req, found, walk, ret,
                   now, ctx_done, ticker, once, quoteVars, handlerVars>>

\* The initial cleanup; then the ticker is created.
StartInitialClean ==
    /\ cleaner.pc = "initial_clean"
    /\ \E err \in CleanErrs(ctx_done) :
          /\ cache_entries' = clean(cache_entries, now, err)
          /\ cleaner' = [cleaner EXCEPT !.pc = AfterClean(err),
                                        !.sweeps = @ + 1, !.err = err,
                                        !.ret = IF AfterClean(err) = "returned"
                                                THEN err ELSE @]
    /\ UNCHANGED <<cache_entries_seq, builderVars, pc, req, found, walk, ret,
                   now, ctx_done, ticker, once, quoteVars, handlerVars>>

\* The ticker sends a tick; ticker.C holds one tick, a tick that finds it
\* full is dropped.  The deferred ticker.Stop() ends the ticks.
TickerFire ==
    /\ cleaner.pc \in {"select", "tick_clean"}
    /\ ticker.sent < MaxTicks
    /\ ticker' = [sent |-> ticker.sent + 1, pending |-> TRUE]
    /\ UNCHANGED <<cacheVars, builderVars, pc, req, found, walk, ret,
                   now, ctx_done, cleaner, once, quoteVars, handlerVars>>

\* select: case <-ticker.C.
StartSelectTick ==
    /\ cleaner.pc = "select"
    /\ ticker.pending
    /\ ticker' = [ticker EXCEPT !.pending = FALSE]
    /\ cleaner' = [cleaner EXCEPT !.pc = "tick_clean", !.received = @ + 1]
    /\ UNCHANGED <<cacheVars, builderVars, pc, req, found, walk, ret,
                   now, ctx_done, once, quoteVars, handlerVars>>

\* The cleanup of a tick.
StartTickClean ==
    /\ cleaner.pc = "tick_clean"
    /\ \E err \in CleanErrs(ctx_done) :
          /\ cache_entries' = clean(cache_entries, now, err)
          /\ cleaner' = [cleaner EXCEPT !.pc = AfterClean(err),
                                        !.sweeps = @ + 1, !.err = err,
                                        !.ret = IF AfterClean(err) = "returned"
                                                THEN err ELSE @]
    /\ UNCHANGED <<cache_entries_seq, builderVars, pc, req, found, walk, ret,
                   now, ctx_done, ticker, once, quoteVars, handlerVars>>

\* Cancellation looked at only when a tick has arrived.
SelectDoneReady_AfterTick(done, pending) == done /\ pending

\* The case <-ctx.Done() of the select is ready as soon as the context is
\* cancelled, whether or not a tick is waiting.
SelectDoneReady(done, pending) == done

\* select: case <-ctx.Done(): return ctx.Err().
StartSelectDone ==
    /\ cleaner.pc = "select"
    /\ SelectDoneReady(ctx_done, ticker.pending)
    /\ cleaner' = [cleaner EXCEPT !.pc = "returned", !.ret = "canceled"]
    /\ UNCHANGED <<cacheVars, builderVars, pc, req, found, walk, ret,
                   now, ctx_done, ticker, once, quoteVars, handlerVars>>

\* The caller cancels the context it gave to Start.
Cancel ==
    /\ ~ctx_done
    /\ ctx_done' = TRUE
    /\ UNCHANGED <<cacheVars, builderVars, pc, req, found, walk, ret,
                   now, cleaner, ticker, once, quoteVars, handlerVars>>

\* Time passes.
AdvanceClock ==
    /\ \E t \in Times : t > now /\ now' = t
    /\ UNCHANGED <<cacheVars, builderVars, pc, req, found, walk, ret,
                   ctx_done, cleaner, ticker, once, quoteVars, handlerVars>>

(***************************************************************************)
(* Quote Store: Store.Store, Store.GetByID and Store.Delete over tables    *)
(* quote and quote_entry.  The rows a transaction has written are in the   *)
(* locals of the process that runs it until the transaction commits.       *)
(***************************************************************************)
\* Quote and QuoteEntry rows.
Quote(id, creator, chat) == [id |-> id, creator |-> creator, chat_id |-> chat]
QuoteEntry(id, order, message, quote_id) ==
    [id |-> id, order |-> order, message |-> message, quote_id |-> quote_id]

\* The check of the entry list left out.
NoEntries_Never(entries) == FALSE

\* len(opts.Entries) == 0
NoEntries(entries) == Len(entries) = 0

\* A rollback that leaves the rows written so far in the table.
Rollback_KeepsWrites(table, written) == table \cup written

\* The table after a transaction that wrote the rows written is rolled back.
Rollback(table, written) == table

\* Store returns a nil quote and an error; what the transaction wrote is
\* rolled back.
StoreFails(p, err) ==
    /\ store' = [store EXCEPT ![p] = [@ EXCEPT !.pc = "idle", !.err = err,
                                               !.quote_id = 0, !.i = 0,
                                               !.tx = {}, !.loaded = <<>>]]
    /\ quote' = Rollback(quote, IF store[p].pc = "tx"
                                THEN {Quote(store[p].quote_id, store[p].creator,
                                            store[p].chatID)}
                                ELSE {})
    /\ quote_entry' = Rollback(quote_entry, store[p].tx)

\* Store up to tx.Create(&quote): the check of the entry list, the start of
\* the transaction and the INSERT of the quote row.
StoreCall(p, chatID, creator, entries) ==
    /\ store[p].pc = "idle"
    /\ IF NoEntries(entries)
       THEN /\ store' = [store EXCEPT ![p] =
                   [NoStore EXCEPT !.chatID = chatID, !.creator = creator,
                                   !.err = "no_entries"]]
            /\ UNCHANGED <<quote, quote_seq, quote_entry>>
       ELSE /\ quote_seq \in QuoteIds
            /\ \E err \in DbErrs :
                  IF err = "nil"
                  THEN /\ store' = [store EXCEPT ![p] =
                              [NoStore EXCEPT !.pc = "tx", !.chatID = chatID,
                                              !.creator = creator,
                                              !.entries = entries,
                                              !.quote_id = quote_seq]]
                       /\ quote_seq' = quote_seq + 1
                       /\ UNCHANGED <<quote, quote_entry>>
                  ELSE /\ store' = [store EXCEPT ![p] =
                              [NoStore EXCEPT !.chatID = chatID,
                                              !.creator = creator,
                                              !.entries = entries,
                                              !.err = "create_quote"]]
                       /\ UNCHANGED <<quote, quote_seq, quote_entry>>
    /\ UNCHANGED <<cacheVars, builderVars, pc, req, found, walk, ret,
                   cleanerVars, quote_entry_seq>>

\* Store called on its own.
Store(p, chatID, creator, entries) ==
    /\ StoreCall(p, chatID, creator, entries)
    /\ UNCHANGED handlerVars

\* One iteration of the loop over opts.Entries: tx.Create(&quoteEntry) with
\* Order i.
StoreCreateEntry(p) ==
    /\ store[p].pc = "tx"
    /\ store[p].i < Len(store[p].entries)
    /\ \E err \in DbErrs :
          IF err = "nil"
          THEN /\ store' = [store EXCEPT ![p] = [@ EXCEPT
                      !.tx = @ \cup {QuoteEntry(quote_entry_seq, store[p].i,
                                                 store[p].entries[store[p].i + 1],
                                                 store[p].quote_id)},
                      !.i = @ + 1]]
               /\ quote_entry_seq' = quote_entry_seq + 1
               /\ UNCHANGED <<quote, quote_entry>>
          ELSE /\ StoreFails(p, "create_entry")
               /\ UNCHANGED quote_entry_seq
    /\ UNCHANGED <<cacheVars, builderVars, pc, req, found, walk, ret,
                   cleanerVars, quote_seq, handlerVars>>

\* The end of the transaction function: the commit makes the quote row and
\* its entry rows visible together, or fails and leaves none of them.
StoreCommit(p) ==
    /\ store[p].pc = "tx"
    /\ store[p].i = Len(store[p].entries)
    /\ \E err \in DbErrs :
          IF err = "nil"
          THEN /\ quote' = quote \cup {Quote(store[p].quote_id, store[p].creator,
                                             store[p].chatID)}
               /\ quote_entry' = quote_entry \cup store[p].tx
               /\ store' = [store EXCEPT ![p] = [@ EXCEPT !.pc = "reload",
                                                          !.tx = {}]]
          ELSE StoreFails(p, "commit")
    /\ UNCHANGED <<cacheVars, builderVars, pc, req, found, walk, ret,
                   cleanerVars, quote_seq, quote_entry_seq, handlerVars>>

\* The entry rows of a quote by ascending order.
EntriesInOrder(entries, id) ==
    LET rows == {e \in entries : e.quote_id = id}
        n == Cardinality(rows)
    IN  CHOOSE sq \in [1..n -> rows] :
            /\ \A a, b \in 1..n : a # b => sq[a] # sq[b]
            /\ \A a, b \in 1..n : a < b => sq[a].order <= sq[b].order

\* The entry rows of a quote as a SELECT without ORDER BY can return them:
\* Preload("Entries") alone.  The database is free to give any order.
EntriesAnyOrder(entries, id) ==
    LET rows == {e \in entries : e.quote_id = id}
        n == Cardinality(rows)
    IN  {sq \in [1..n -> rows] : \A a, b \in 1..n : a # b => sq[a] # sq[b]}

\* The reload of the quote with its entries; then Store returns.
StoreReload(p) ==
    /\ store[p].pc = "reload"
    /\ IF \A q \in quote : q.id # store[p].quote_id
       THEN StoreFails(p, "reload")
       ELSE \E err \in DbErrs :
               IF err = "nil"
               THEN /\ \E sq \in EntriesAnyOrder(quote_entry, store[p].quote_id) :
                         store' = [store EXCEPT ![p] = [@ EXCEPT
                                      !.pc = "idle", !.err = "nil",
                                      !.loaded = sq]]
                    /\ UNCHANGED <<quote, quote_entry>>
               ELSE StoreFails(p, "reload")
    /\ UNCHANGED <<cacheVars, builderVars, pc, req, found, walk, ret,
                   cleanerVars, quote_seq, quote_entry_seq, handlerVars>>

\* A reader that takes the content of each entry from the message cache.
StoredQuote_JoinCache(id) ==
    IF \E q \in quote : q.id = id
    THEN LET q == CHOOSE r \in quote : r.id = id
             rows == EntriesInOrder(quote_entry, id)
             cached(m) == RowsAt(cache_entries, m.chat, m.message_id)
         IN  [id |-> q.id, creator |-> q.creator, chat_id |-> q.chat_id,
              entries |-> [k \in 1..Len(rows) |->
                  [rows[k] EXCEPT !.message =
                      IF cached(@) = {} THEN ZeroMessage
                      ELSE FirstById(cached(@)).message]]]
    ELSE NoQuote

\* The stored quote of an id: its row with its entry rows by ascending order,
\* or no quote.
StoredQuote(id) ==
    IF \E q \in quote : q.id = id
    THEN LET q == CHOOSE r \in quote : r.id = id
         IN  [id |-> q.id, creator |-> q.creator, chat_id |-> q.chat_id,
              entries |-> EntriesInOrder(quote_entry, id)]
    ELSE NoQuote

\* The count over the whole table.
CountForChat_AllChats(chatID) == Cardinality(quote)

\* CountForChat: the number of quotes of a chat.
CountForChat(chatID) == Cardinality({q \in quote : q.chat_id = chatID})

\* The rows of every chat.
RandomForChat_AnyChat(chatID) == quote

\* The rows Where("chat_id = ?").Order("RANDOM()").First can return.
RandomForChat(chatID) == {q \in quote : q.chat_id = chatID}

\* A quote before its entries are preloaded.
Loaded(q, entries) ==
    [id |-> q.id, creator |-> q.creator, chat_id |-> q.chat_id,
     entries |-> entries]

\* GetByID up to First(&quote, id): the SELECT of the quote row.
GetByIDQuery(p, id) ==
    /\ reader[p].pc = "idle"
    /\ \E err \in DbErrs :
          reader' = [reader EXCEPT ![p] =
             IF err # "nil"
             THEN [NoReader EXCEPT !.op = "get_by_id", !.arg = id, !.err = err]
             ELSE IF \A q \in quote : q.id # id
             THEN [NoReader EXCEPT !.op = "get_by_id", !.arg = id,
                                   !.err = "not_found"]
             ELSE [NoReader EXCEPT !.pc = "preload", !.op = "get_by_id",
                                   !.arg = id,
                                   !.quote = Loaded(CHOOSE q \in quote : q.id = id,
                                                    <<>>)]]
    /\ UNCHANGED <<cacheVars, builderVars, pc, req, found, walk, ret,
                   cleanerVars, quoteVars, addquote, rendered, chatfilter,
                   dispatcher, pollerVars>>

\* GetRandomForChat up to the SELECT of the quote row: no row is no quote and
\* no error.
GetRandomForChatQuery(p, chatID) ==
    /\ reader[p].pc = "idle"
    /\ \E err \in DbErrs :
          IF err # "nil"
          THEN reader' = [reader EXCEPT ![p] =
                  [NoReader EXCEPT !.op = "random", !.arg = chatID, !.err = err]]
          ELSE IF RandomForChat(chatID) = {}
          THEN reader' = [reader EXCEPT ![p] =
                  [NoReader EXCEPT !.op = "random", !.arg = chatID, !.err = "nil"]]
          ELSE \E q \in RandomForChat(chatID) :
                  reader' = [reader EXCEPT ![p] =
                     [NoReader EXCEPT !.pc = "preload", !.op = "random",
                                      !.arg = chatID, !.quote = Loaded(q, <<>>)]]
    /\ UNCHANGED <<cacheVars, builderVars, pc, req, found, walk, ret,
                   cleanerVars, quoteVars, addquote, rendered, chatfilter,
                   dispatcher, pollerVars>>

\* The table of QuoteEntry.TableName, which the Preload selects FROM.
EntryTable == "quote_entry"

\* The table the Order clause of the readers' Preload qualifies its column
\* with: Order("quote_entries.order ASC").
OrderTable == "quote_entries"

\* The outcome of SELECT * FROM <from> WHERE quote_id = ? ORDER BY
\* <qualifier>.order ASC: a qualifier that is not a table of the FROM clause
\* is an error of the statement.
PreloadErr(from, qualifier) ==
    IF qualifier = from THEN "nil" ELSE "missing_from"

\* The Preload of a reader: a second SELECT, of the entry rows in ascending
\* order; then the reader returns, the quote or the error of the statement.
ReaderPreload(p) ==
    /\ reader[p].pc = "preload"
    /\ \E err \in {PreloadErr(EntryTable, OrderTable), "db"} :
          reader' = [reader EXCEPT ![p] =
             IF err # "nil"
             THEN [@ EXCEPT !.pc = "idle", !.quote = NoQuote, !.err = err]
             ELSE [@ EXCEPT !.pc = "idle", !.err = "nil",
                            !.quote = Loaded(@, EntriesInOrder(quote_entry, @.id))]]
    /\ UNCHANGED <<cacheVars, builderVars, pc, req, found, walk, ret,
                   cleanerVars, quoteVars, addquote, rendered, chatfilter,
                   dispatcher, pollerVars>>

\* CountForChat called by a reader.
CountForChatQuery(p, chatID) ==
    /\ reader[p].pc = "idle"
    /\ \E err \in DbErrs :
          reader' = [reader EXCEPT ![p] =
             [NoReader EXCEPT !.op = "count", !.arg = chatID, !.err = err,
                              !.count = IF err = "nil" THEN CountForChat(chatID)
                                        ELSE 0]]
    /\ UNCHANGED <<cacheVars, builderVars, pc, req, found, walk, ret,
                   cleanerVars, quoteVars, addquote, rendered, chatfilter,
                   dispatcher, pollerVars>>

\* A foreign key that does not cascade.
Cascade_None(entries, id) == entries

\* constraint:OnDelete:CASCADE on Quote.Entries: the entry rows left when the
\* quote row id is deleted.
Cascade(entries, id) == {e \in entries : e.quote_id # id}

\* Delete(id): the quote row goes, and its entries with it.
Delete(id) ==
    /\ \E q \in quote : q.id = id
    /\ quote' = {q \in quote : q.id # id}
    /\ quote_entry' = Cascade(quote_entry, id)
    /\ UNCHANGED <<cacheVars, builderVars, pc, req, found, walk, ret,
                   cleanerVars, quote_seq, quote_entry_seq, store, handlerVars>>

(***************************************************************************)
(* /addquote: AddQuoteHandler.Handle.  The handler calls Builder.BuildFrom *)
(* and Store.StoreFromBuild; their steps are the ones above.               *)
(***************************************************************************)
\* A command message: the chat it was sent in, its sender and the message it
\* replies to; a ZeroMessage reply stands for a nil ReplyToMessage.
Command(chat, from, reply) == [chat |-> chat, from |-> from, reply |-> reply]

\* extractChatID: the id of the message's chat, 0 when it has none.
extractChatID(message) == message.chat

\* The fallback failing to marshal the message.
buildFromReplyMessage_Fails(replyMsg) ==
    [err |-> "marshal", chatID |-> 0, entries |-> <<>>]

\* buildFromReplyMessage: a result of one entry holding the message itself.
buildFromReplyMessage(replyMsg) ==
    [err |-> "nil", chatID |-> extractChatID(replyMsg), entries |-> <<replyMsg>>]

\* creator := message.From, or the Unknown user when the command has no sender.
Creator(from) == IF from = NilUser THEN "unknown" ELSE from

\* Handle up to the call of BuildFrom.
AddQuoteHandle(p, message) ==
    /\ addquote[p].pc = "idle"
    /\ store[p].pc = "idle"
    /\ pc[p] = "idle"
    /\ IF extractChatID(message) = 0
       THEN /\ addquote' = [addquote EXCEPT ![p] =
                   [NoAddQuote EXCEPT !.out = [NoOut EXCEPT !.kind = "no_chat_id"]]]
            /\ UNCHANGED <<cacheVars, builderVars, pc, req, found, walk, ret,
                           cleanerVars>>
       ELSE IF message.reply = ZeroMessage
       THEN /\ addquote' = [addquote EXCEPT ![p] =
                   [NoAddQuote EXCEPT !.chatID = extractChatID(message),
                                      !.out = [NoOut EXCEPT !.kind = "please_reply"]]]
            /\ UNCHANGED <<cacheVars, builderVars, pc, req, found, walk, ret,
                           cleanerVars>>
       ELSE /\ BuildFromCall(p, extractChatID(message), message.reply.message_id)
            /\ addquote' = [addquote EXCEPT ![p] =
                   [NoAddQuote EXCEPT !.pc = "building",
                                      !.chatID = extractChatID(message),
                                      !.creator = Creator(message.from),
                                      !.reply = message.reply]]
    /\ UNCHANGED <<quoteVars, reader, rendered, chatfilter, dispatcher, pollerVars>>

\* BuildFrom has returned: the fallback when it returned an error, then the
\* call of StoreFromBuild, up to tx.Create(&quote).
AddQuoteBuilt(p) ==
    /\ addquote[p].pc = "building"
    /\ pc[p] = "idle"
    /\ LET h == addquote[p]
           result == IF ret[p].err # "nil"
                     THEN buildFromReplyMessage(h.reply)
                     ELSE [err |-> "nil", chatID |-> ret[p].chat_id,
                           entries |-> [k \in 1..Len(ret[p].entries) |->
                                           ret[p].entries[k].message]]
       IN  IF result.err # "nil"
           THEN /\ addquote' = [addquote EXCEPT ![p] = [h EXCEPT
                       !.pc = "idle", !.miss = TRUE,
                       !.out = [NoOut EXCEPT !.kind = "could_not_build"]]]
                /\ UNCHANGED <<cacheVars, builderVars, pc, req, found, walk,
                               ret, cleanerVars, quoteVars>>
           ELSE /\ StoreCall(p, result.chatID, h.creator, result.entries)
                /\ addquote' = [addquote EXCEPT ![p] = [h EXCEPT
                       !.pc = "storing", !.miss = (ret[p].err # "nil")]]
    /\ UNCHANGED <<reader, rendered, chatfilter, dispatcher, pollerVars>>

\* StoreFromBuild has returned: its error is returned, or the confirmation
\* with the quote's id and the number of its entries is sent.
AddQuoteStored(p) ==
    /\ addquote[p].pc = "storing"
    /\ store[p].pc = "idle"
    /\ addquote' = [addquote EXCEPT ![p] = [@ EXCEPT
          !.pc = "idle",
          !.out = IF store[p].err # "nil"
                  THEN [NoOut EXCEPT !.kind = "store_failed"]
                  ELSE [kind |-> "confirmation", quote_id |-> store[p].quote_id,
                        count |-> Len(store[p].loaded)]]]
    /\ UNCHANGED <<cacheVars, builderVars, pc, req, found, walk, ret,
                   cleanerVars, quoteVars, reader, rendered, chatfilter,
                   dispatcher, pollerVars>>

(***************************************************************************)
(* Renderer: Render, renderEntry, buildAuthorName, RenderSimple and        *)
(* RenderWithDate.  Texts are strings, built as the code builds them.      *)
(***************************************************************************)
\* The JSON document of QuoteEntry.Message as renderEntry reads it: text,
\* from.first_name, from.last_name, from.username and date, an absent key
\* being the zero value; parseable is whether json.Unmarshal accepts it.
Doc(parseable, text, first, last, username, date) ==
    [parseable |-> parseable, text |-> text, first_name |-> first,
     last_name |-> last, username |-> username, date |-> date]

\* strings.Join(parts, sep).
RECURSIVE Join(_, _)
Join(parts, sep) ==
    IF Len(parts) = 0 THEN ""
    ELSE IF Len(parts) = 1 THEN parts[1]
    ELSE parts[1] \o sep \o Join(Tail(parts), sep)

\* An author name that prefers the username.
buildAuthorName_UsernameFirst(firstName, lastName, username) ==
    IF username # "" THEN "@" \o username
    ELSE IF firstName # "" THEN firstName
    ELSE IF lastName # "" THEN lastName
    ELSE "Unknown"

\* Renderer.buildAuthorName.
buildAuthorName(firstName, lastName, username) ==
    LET first == IF firstName # "" THEN <<firstName>> ELSE <<>>
        parts == IF lastName # "" THEN Append(first, lastName) ELSE first
        joined == Join(parts, " ")
        name == IF joined = "" /\ username # "" THEN "@" \o username
                ELSE joined
    IN  IF name = "" THEN "Unknown" ELSE name

\* An entry rendered with its text as it is.
renderEntry_EmptyText(entry) ==
    IF ~entry.message.parseable
    THEN [err |-> "unmarshal", text |-> ""]
    ELSE [err |-> "nil",
          text |-> buildAuthorName(entry.message.first_name,
                                   entry.message.last_name,
                                   entry.message.username)
                   \o ": " \o entry.message.text]

\* Renderer.renderEntry: "<Author Name>: <message text>".
renderEntry(entry) ==
    IF ~entry.message.parseable
    THEN [err |-> "unmarshal", text |-> ""]
    ELSE [err |-> "nil",
          text |-> buildAuthorName(entry.message.first_name,
                                   entry.message.last_name,
                                   entry.message.username)
                   \o ": " \o (IF entry.message.text = "" THEN "(no text)"
                                ELSE entry.message.text)]

\* A Render that takes a quote without entries.
Render_EmptyOk(q, includeID) ==
    IF q = NoQuote
    THEN [text |-> "", count |-> 0, err |-> "nil_quote"]
    ELSE [text |-> IF includeID THEN "#" \o ToString(q.id) \o "\n" ELSE "",
          count |-> Len(q.entries), err |-> "nil"]

\* Renderer.Render: a nil *RenderResult is text "" and count 0.
Render(q, includeID) ==
    IF q = NoQuote
    THEN [text |-> "", count |-> 0, err |-> "nil_quote"]
    ELSE IF Len(q.entries) = 0
    THEN [text |-> "", count |-> 0, err |-> "no_entries"]
    ELSE LET parts == [k \in 1..Len(q.entries) |->
                          renderEntry(q.entries[k])]
         IN  IF \E k \in 1..Len(parts) : parts[k].err # "nil"
             THEN [text |-> "", count |-> 0, err |-> "render_entry"]
             ELSE LET text == Join([k \in 1..Len(parts) |-> parts[k].text],
                                   "\n")
                  IN  [text |-> IF includeID
                                THEN "#" \o ToString(q.id) \o "\n" \o text
                                ELSE text,
                       count |-> Len(q.entries), err |-> "nil"]

\* Renderer.RenderSimple.
RenderSimple(q) ==
    LET result == Render(q, FALSE)
    IN  [text |-> IF result.err # "nil" THEN "" ELSE result.text,
         count |-> 0, err |-> result.err]

\* A number in two digits.
TwoDigits(n) == IF n < 10 THEN "0" \o ToString(n) ELSE ToString(n)

\* time.Unix(date, 0).Format("2006-01-02 15:04") for a time of the first day
\* of the epoch, in a zone at UTC.
FormatDate(date) ==
    "1970-01-01 " \o TwoDigits((date \div 3600) % 24) \o ":"
                  \o TwoDigits((date \div 60) % 60)

\* The calendar sign that starts the date line (U+1F4C5 in the source).
CalendarMark == "[calendar]"

\* Renderer.RenderWithDate.
RenderWithDate(q) ==
    LET result == Render(q, TRUE)
    IN  IF result.err # "nil"
        THEN [text |-> "", count |-> 0, err |-> result.err]
        ELSE LET d == q.entries[1].message
             IN  [text |-> IF d.parseable /\ d.date > 0
                           THEN result.text \o "\n" \o CalendarMark \o " "
                                            \o FormatDate(d.date)
                           ELSE result.text,
                  count |-> 0, err |-> "nil"]

\* One call of Render on a fresh Renderer.
RenderCall(q, includeID) ==
    /\ rendered.fn = "none"
    /\ rendered' = [NoRendered EXCEPT
                       !.fn = "Render", !.quote = q, !.includeID = includeID,
                       !.text = Render(q, includeID).text,
                       !.count = Render(q, includeID).count,
                       !.err = Render(q, includeID).err]
    /\ UNCHANGED <<cacheVars, builderVars, pc, req, found, walk, ret,
                   cleanerVars, quoteVars, addquote, reader, chatfilter,
                   dispatcher, pollerVars>>

\* One call of RenderSimple.
RenderSimpleCall(q) ==
    /\ rendered.fn = "none"
    /\ rendered' = [NoRendered EXCEPT
                       !.fn = "RenderSimple", !.quote = q,
                       !.text = RenderSimple(q).text,
                       !.err = RenderSimple(q).err]
    /\ UNCHANGED <<cacheVars, builderVars, pc, req, found, walk, ret,
                   cleanerVars, quoteVars, addquote, reader, chatfilter,
                   dispatcher, pollerVars>>

\* One call of RenderWithDate.
RenderWithDateCall(q) ==
    /\ rendered.fn = "none"
    /\ rendered' = [NoRendered EXCEPT
                       !.fn = "RenderWithDate", !.quote = q, !.includeID = TRUE,
                       !.text = RenderWithDate(q).text,
                       !.err = RenderWithDate(q).err]
    /\ UNCHANGED <<cacheVars, builderVars, pc, req, found, walk, ret,
                   cleanerVars, quoteVars, addquote, reader, chatfilter,
                   dispatcher, pollerVars>>

\* One call of buildAuthorName.
BuildAuthorNameCall(firstName, lastName, username) ==
    /\ rendered.fn = "none"
    /\ rendered' = [NoRendered EXCEPT
                       !.fn = "buildAuthorName", !.first = firstName,
                       !.last = lastName, !.username = username,
                       !.text = buildAuthorName(firstName, lastName, username),
                       !.err = "nil"]
    /\ UNCHANGED <<cacheVars, builderVars, pc, req, found, walk, ret,
                   cleanerVars, quoteVars, addquote, reader, chatfilter,
                   dispatcher, pollerVars>>

(***************************************************************************)
(* The allowlist: the ChatFilter middleware and the Dispatcher.            *)
(***************************************************************************)
\* A models.Update: the field that is set (kind), the chat id of that field
\* where it has one, and the text of a message as its characters.
Update(kind, chat, text) == [kind |-> kind, chat |-> chat, text |-> text]

\* The update fields extractChatID reads a chat id from, as far as the bot
\* receives them; a callback query without a message, a poll and the nil
\* update give 0.
ChatKinds == {"message", "edited_message", "channel_post", "callback_query"}

\* middleware.extractChatID.
extractUpdateChatID(update) ==
    IF update.kind \in ChatKinds THEN update.chat ELSE 0

\* ChatFilter(allowedChatIDs, autoLeave, logger): the middleware is built.
NewChatFilter(allowedChatIDs, autoLeave) ==
    /\ ~chatfilter.built
    /\ chatfilter' = [NoChatFilter EXCEPT !.built = TRUE,
                                          !.allowed = allowedChatIDs,
                                          !.autoLeave = autoLeave]
    /\ UNCHANGED <<cacheVars, builderVars, pc, req, found, walk, ret,
                   cleanerVars, quoteVars, addquote, reader, rendered,
                   dispatcher, pollerVars>>

\* The middleware on one update: skipped without a chat id; ignored, and the
\* chat left when autoLeave is set, for a chat that is not allowed; else next.
ChatFilterResult(update) ==
    LET chatID == extractUpdateChatID(update)
        allowAll == chatfilter.allowed = {}
    IN  IF chatID = 0
        THEN [chatfilter EXCEPT !.update = update, !.next = FALSE,
                                !.left = FALSE]
        ELSE IF ~allowAll /\ chatID \notin chatfilter.allowed
        THEN [chatfilter EXCEPT !.update = update, !.next = FALSE,
                                !.left = chatfilter.autoLeave]
        ELSE [chatfilter EXCEPT !.update = update, !.next = TRUE,
                                !.left = FALSE]

\* The middleware called with a next handler that does nothing.
ChatFilterHandle(update) ==
    /\ chatfilter.built
    /\ chatfilter' = ChatFilterResult(update)
    /\ UNCHANGED <<cacheVars, builderVars, pc, req, found, walk, ret,
                   cleanerVars, quoteVars, addquote, reader, rendered,
                   dispatcher, pollerVars>>

\* NewDispatcher(inCh, allowedChatIDs).
NewDispatcher(allowedChatIDs) ==
    /\ ~dispatcher.built
    /\ dispatcher' = [NoDispatcher EXCEPT !.built = TRUE,
                                          !.allowed = allowedChatIDs]
    /\ UNCHANGED <<cacheVars, builderVars, pc, req, found, walk, ret,
                   cleanerVars, quoteVars, addquote, reader, rendered,
                   chatfilter, pollerVars>>

\* A dispatcher that allows every chat.
isChatAllowed_Always(allowed, chatID) == TRUE

\* Dispatcher.isChatAllowed.
isChatAllowed(allowed, chatID) ==
    IF Cardinality(allowed) = 0 THEN TRUE ELSE chatID \in allowed

\* The least index of a set of indexes: where a loop over the text breaks.
FirstIndex(S) == CHOOSE i \in S : \A j \in S : i <= j

\* extractCommand(text): the name after "/" up to the first space, without
\* "@" and what follows it; empty for a text that is no command.
extractCommand(text) ==
    IF Len(text) = 0 \/ text[1] # "/" THEN <<>>
    ELSE LET spaces == {i \in 1..Len(text) : text[i] = " "}
             end == IF spaces = {} THEN Len(text) ELSE FirstIndex(spaces) - 1
             cmd == SubSeq(text, 2, end)
             ats == {i \in 1..Len(cmd) : cmd[i] = "@"}
         IN  IF ats = {} THEN cmd ELSE SubSeq(cmd, 1, FirstIndex(ats) - 1)

\* The names Register was called with: "rquote" and "addquote".
Commands ==
    {<<"r", "q", "u", "o", "t", "e">>,
     <<"a", "d", "d", "q", "u", "o", "t", "e">>}

\* processUpdates on one update: the update handlers run; the command of a
\* message or edited message of an allowed chat is executed.
DispatcherResult(update) ==
    [dispatcher EXCEPT
        !.update = update,
        !.handled = TRUE,
        !.executed =
           /\ update.kind \in {"message", "edited_message"}
           /\ isChatAllowed(dispatcher.allowed, update.chat)
           /\ extractCommand(update.text) # <<>>
           /\ extractCommand(update.text) \in Commands]

\* processUpdates with no update handler registered.
DispatcherProcess(update) ==
    /\ dispatcher.built
    /\ update.kind # "nil"
    /\ dispatcher' = DispatcherResult(update)
    /\ UNCHANGED <<cacheVars, builderVars, pc, req, found, walk, ret,
                   cleanerVars, quoteVars, addquote, reader, rendered,
                   chatfilter, pollerVars>>

(***************************************************************************)
(* The cache behind the allowlist: the bot's middleware chain (chat filter, *)
(* then cache middleware) and the Dispatcher with the cache middleware as  *)
(* an update handler.                                                      *)
(***************************************************************************)
\* An update that carries a message or an edited message.
MessageUpdate(kind, msg) ==
    [kind |-> kind, chat |-> msg.chat, text |-> <<>>, message |-> msg]

\* Middleware.handleMessage: the document handed to AddCommand.Execute, with
\* the id, chat, date, text and sender of the message and the id of the
\* message it replies to.
handleMessage(msg) ==
    Raw(msg.message_id, msg.chat, msg.date, msg.text, msg.from, msg.reply_to)

\* Middleware.handleEditedMessage: the document handed to
\* EditCommand.Execute; it has no reply_to_message.
handleEditedMessage(msg) ==
    Raw(msg.message_id, msg.chat, msg.date, msg.text, msg.from, NULL)

\* Middleware.HandleUpdate: a message is ingested, an edited message edits,
\* any other update is left alone.
HandleUpdate(p, update) ==
    /\ pc[p] = "idle"
    /\ IF update.kind = "message"
       THEN AddExecuteCall(p, handleMessage(update.message))
       ELSE IF update.kind = "edited_message"
       THEN EditExecuteCall(p, handleEditedMessage(update.message))
       ELSE UNCHANGED <<cacheVars, builderVars, pc, req, found, walk, ret,
                        cleanerVars, quoteVars>>

\* bot.WithMiddlewares(chatFilterMiddleware, cacheMiddleware) on one update:
\* the chat filter, and the cache middleware when the filter calls next.
BotHandleUpdate(p, update) ==
    /\ chatfilter.built
    /\ pc[p] = "idle"
    /\ chatfilter' = ChatFilterResult(update)
    /\ IF ChatFilterResult(update).next
       THEN HandleUpdate(p, update)
       ELSE UNCHANGED <<cacheVars, builderVars, pc, req, found, walk, ret,
                        cleanerVars, quoteVars>>
    /\ UNCHANGED <<addquote, reader, rendered, dispatcher, pollerVars>>

\* processUpdates on one update with Middleware.HandleUpdate registered by
\* AddUpdateHandler: the update handlers run, then the allowlist is checked.
DispatcherHandleUpdate(p, update) ==
    /\ dispatcher.built
    /\ HandleUpdate(p, update)
    /\ dispatcher' = DispatcherResult(update)
    /\ UNCHANGED <<addquote, reader, rendered, chatfilter, pollerVars>>

(***************************************************************************)
(* The update poller: Updates.Start, with the context of Cleaner.Start.    *)
(* A batch is the sequence of the ids of its updates.                      *)
(***************************************************************************)
\* lastUpdateID(updates): the highest update id of a batch, 0 for none.
RECURSIVE lastUpdateID(_)
lastUpdateID(updates) ==
    IF Len(updates) = 0 THEN 0
    ELSE LET rest == lastUpdateID(Tail(updates))
         IN  IF Len(updates) = 1 \/ updates[1] > rest THEN updates[1] ELSE rest

\* The batches GetUpdates returns: none, one update, two updates in either
\* order of their ids.
Batches == {<<>>, <<1>>, <<1, 3>>, <<3, 2>>}

\* What GetUpdates(ctx, offset, limit, timeout) can return: a batch, the
\* error of the context once it is cancelled, or the error of a failed call.
GetUpdatesResults(done) ==
    {[err |-> "nil", updates |-> b] : b \in Batches}
        \cup {[err |-> "api", updates |-> <<>>]}
        \cup (IF done THEN {[err |-> "canceled", updates |-> <<>>]} ELSE {})

\* Start up to the loop.
UpdatesStart ==
    /\ poller.pc = "idle"
    /\ poller' = [NoPoller EXCEPT !.pc = "top"]
    /\ UNCHANGED <<cacheVars, builderVars, pc, req, found, walk, ret,
                   cleanerVars, quoteVars, addquote, reader, rendered,
                   chatfilter, dispatcher, outCh>>

\* The select at the top of the loop: return ctx.Err() when the context is
\* cancelled, go on to GetUpdates otherwise.
UpdatesSelectTop ==
    /\ poller.pc = "top"
    /\ poller' = IF ctx_done
                 THEN [poller EXCEPT !.pc = "returned", !.ret = "canceled",
                                     !.at = "top"]
                 ELSE [poller EXCEPT !.pc = "get"]
    /\ UNCHANGED <<cacheVars, builderVars, pc, req, found, walk, ret,
                   cleanerVars, quoteVars, addquote, reader, rendered,
                   chatfilter, dispatcher, outCh>>

\* GetUpdates returns: an error or an empty batch goes round the loop, a
\* batch with updates goes to the send.
UpdatesGetUpdates ==
    /\ poller.pc = "get"
    /\ \E r \in GetUpdatesResults(ctx_done) :
          poller' = IF r.err # "nil" \/ Len(r.updates) = 0
                    THEN [poller EXCEPT !.pc = "top"]
                    ELSE [poller EXCEPT !.pc = "send", !.updates = r.updates]
    /\ UNCHANGED <<cacheVars, builderVars, pc, req, found, walk, ret,
                   cleanerVars, quoteVars, addquote, reader, rendered,
                   chatfilter, dispatcher, outCh>>

\* select: case u.outCh <- updates, ready while the channel has room; then
\* the offset is moved past the batch.
UpdatesSend ==
    /\ poller.pc = "send"
    /\ Len(outCh) < MaxOutCh
    /\ outCh' = Append(outCh, poller.updates)
    /\ poller' = [poller EXCEPT !.pc = "top",
                                !.offset = lastUpdateID(poller.updates) + 1,
                                !.updates = <<>>]
    /\ UNCHANGED <<cacheVars, builderVars, pc, req, found, walk, ret,
                   cleanerVars, quoteVars, addquote, reader, rendered,
                   chatfilter, dispatcher>>

\* A send that waits for room in the channel whatever the context says.
SendDoneReady_Never(done) == FALSE

\* The case <-ctx.Done() of the select around the send is ready as soon as
\* the context is cancelled.
SendDoneReady(done) == done

\* select: case <-ctx.Done(): return ctx.Err().
UpdatesSendDone ==
    /\ poller.pc = "send"
    /\ SendDoneReady(ctx_done)
    /\ poller' = [poller EXCEPT !.pc = "returned", !.ret = "canceled",
                                !.at = "send"]
    /\ UNCHANGED <<cacheVars, builderVars, pc, req, found, walk, ret,
                   cleanerVars, quoteVars, addquote, reader, rendered,
                   chatfilter, dispatcher, outCh>>

\* The reader of the channel takes a batch: updates := <-d.inCh.
DispatcherReceive ==
    /\ Len(outCh) > 0
    /\ outCh' = Tail(outCh)
    /\ UNCHANGED <<cacheVars, builderVars, pc, req, found, walk, ret,
                   cleanerVars, quoteVars, addquote, reader, rendered,
                   chatfilter, dispatcher, poller>>

\* The entry lists given to Store: up to MaxEntries entries, two messages in
\* turn, either of them first.
StoreEntryLists ==
    {[k \in 1..n |-> IF k % 2 = f
                     THEN Message(1, 1, 10, "a", "u1", NULL)
                     ELSE Message(2, 1, 20, "b", "u2", 1)] :
        n \in 0..MaxEntries, f \in {0, 1}}

(***************************************************************************)
(* Inputs and specifications.                                              *)
(***************************************************************************)
\* The reply_to_message references a payload may carry: none, a cached
\* message id, or the id of a message that is never cached.
Replies == {NULL} \cup 1..(MaxMsg + 1)

\* Payloads handed to AddCommand.Execute.
AddInputs ==
    {Raw(m, c, d, t, f, r) : m \in MsgIds, c \in Chats, d \in Dates,
                             t \in Texts, f \in Users, r \in Replies}
    \cup {Malformed}

\* Payloads handed to EditCommand.Execute (an edited message carries no
\* reply_to_message in Middleware.handleEditedMessage).
EditInputs ==
    {Raw(m, c, d, t, f, NULL) : m \in MsgIds, c \in Chats, d \in Dates,
                                t \in Texts, f \in Users}
    \cup {Malformed}

\* The thread builder alone: rows are created in cache_entry while one
\* process walks it.
NextBuilder ==
    \/ \E c \in Chats, m \in MsgIds, r \in Replies \cup {0} : CreateCacheEntry(c, m, r)
    \/ \E c \in Chats, m \in MsgIds \cup {0} : BuildFrom("p1", c, m)
    \/ BuildFromLoop("p1")

SpecBuilder == Init /\ [][NextBuilder]_vars

\* The keys of the messages handed to the cache: every message id in chat 1,
\* and message id 1 in chat 2 as well.
CacheKeys == {<<1, m>> : m \in MsgIds} \cup {<<2, 1>>}

\* The message cache with one handler at a time: messages are ingested,
\* ingested again with another payload, and edited.
SeqAddInputs ==
    {Raw(k[2], k[1], 10, "a", "u1", NULL) : k \in CacheKeys}
    \cup {Raw(k[2], k[1], 20, "b", NilUser, 1) : k \in CacheKeys}
    \cup {Malformed}

SeqEditInputs ==
    {Raw(k[2], k[1], 20, t, f, NULL) : k \in CacheKeys,
                                       t \in {"", "b"}, f \in {NilUser, "u2"}}
    \cup {Malformed}

NextCache ==
    \/ \E raw \in SeqAddInputs : AddExecute("p1", raw)
    \/ AddExecuteWrite("p1")
    \/ \E raw \in SeqEditInputs : EditExecute("p1", raw)
    \/ EditExecuteWrite("p1")

SpecCache == Init /\ [][NextCache]_vars

\* Concurrent ingestion: two handlers run AddCommand.Execute at the same time,
\* with three payloads to choose from for every key.
ConcAddInputs ==
    SeqAddInputs \cup {Raw(k[2], k[1], 20, "", "u1", NULL) : k \in CacheKeys}

NextIngest ==
    \/ \E p \in Procs, raw \in ConcAddInputs : AddExecute(p, raw)
    \/ \E p \in Procs : AddExecuteWrite(p)

SpecIngest == Init /\ [][NextIngest]_vars

\* Ingest, then build: one handler at a time ingests the messages of a reply
\* chain (message k replies to message k - 1, message 1 to nothing) and calls
\* BuildFrom.
ChainInputs ==
    {Raw(k, c, d, "a", "u1", IF k = 1 THEN NULL ELSE k - 1) :
        k \in MsgIds, c \in Chats, d \in Dates}

NextChain ==
    \/ \E raw \in ChainInputs : AddExecute("p1", raw)
    \/ AddExecuteWrite("p1")
    \/ \E c \in Chats, m \in MsgIds : BuildFrom("p1", c, m)
    \/ BuildFromLoop("p1")

SpecChain == Init /\ [][NextChain]_vars

\* The evictor: messages dated 10 and 20 are ingested, the clock advances,
\* CleanOnce is called and Cleaner.Start runs until its context is cancelled.
CleanerAddInputs ==
    {Raw(1, 1, 10, "a", "u1", NULL), Raw(2, 1, 20, "b", "u1", 1)}

NextCleaner ==
    \/ \E raw \in CleanerAddInputs : AddExecute("p1", raw)
    \/ AddExecuteWrite("p1")
    \/ AdvanceClock
    \/ CleanOnce
    \/ Start
    \/ StartInitialClean
    \/ TickerFire
    \/ StartSelectTick
    \/ StartTickClean
    \/ StartSelectDone
    \/ Cancel

SpecCleaner == Init /\ [][NextCleaner]_vars

\* The same with the scheduling of the goroutine that runs Start: a step of
\* Start that can run does run, and a select with ctx.Done() ready over and
\* over takes that case in the end (select picks among the ready cases at
\* random).  Nothing makes the clock advance or the ticker fire.
SpecCleanerLive ==
    /\ SpecCleaner
    /\ WF_vars(StartInitialClean)
    /\ WF_vars(StartTickClean)
    /\ SF_vars(StartSelectDone)

(***************************************************************************)
(* Properties of the thread builder.                                       *)
(***************************************************************************)
\* The message ids a reply link can name without being followed.
NoLink == {NULL, 0}

\* C2: BuildFrom never collects the same message_id twice: no two entries of
\* a walk, in progress or returned, have the same message_id.
C2_WalkNeverRevisits ==
    \A p \in Procs :
        \A i, j \in 1..Len(walk[p].entries) :
            i # j => walk[p].entries[i].message_id # walk[p].entries[j].message_id

\* C3: a walk over an unchanging cache_entry table that starts at a cached
\* message and that the database fails no lookup of returns without error exactly the contiguous run of cached
\* ancestors ending at the starting message, oldest first: the last entry is
\* the starting message's row, every entry is the cached row its successor
\* replies to, and the first entry either replies to nothing or replies to a
\* message that is not cached (the missing predecessor truncates the chain).
C3_PartialChainSucceeds ==
    [][\A p \in Procs :
         (/\ pc[p] = "build_loop"
          /\ pc'[p] = "idle"
          /\ walk[p].stable
          /\ ret'[p].err # "db"
          /\ RowsAt(cache_entry, walk[p].chatID, walk[p].messageID) # {})
         => LET e == ret'[p].entries
                n == Len(e)
            IN  /\ ret'[p].err = "nil"
                /\ n >= 1
                /\ e[n] \in RowsAt(cache_entry, walk[p].chatID, walk[p].messageID)
                /\ \A i \in 1..(n - 1) :
                      /\ e[i] \in cache_entry
                      /\ e[i].chat_id = walk[p].chatID
                      /\ e[i].message_id = e[i + 1].reply_id
                /\ \/ e[1].reply_id \in NoLink
                   \/ RowsAt(cache_entry, walk[p].chatID, e[1].reply_id) = {}
      ]_vars

\* C3 witness: BuildFrom has returned two entries, the older of which replies
\* to a message that is not in the cache.
C3_Witness ==
    \E p \in Procs :
        /\ ret[p].op = "build"
        /\ ret[p].err = "nil"
        /\ Len(ret[p].entries) = 2
        /\ ret[p].entries[1].reply_id \notin NoLink
        /\ RowsAt(cache_entry, ret[p].chat_id, ret[p].entries[1].reply_id) = {}

\* C4: a BuildFrom that returned without error returned at least one entry,
\* and a BuildFrom for a key that has no row in the cache returned the
\* not-found error and no entries, unless the database failed the lookup.
\* (cache_entry only grows, so a key that has no row now had none when
\* BuildFrom looked it up.)
C4_NotFoundWhenAbsent ==
    \A p \in Procs :
        (ret[p].op = "build" /\ ret[p].err # "db") =>
            /\ ret[p].err = "nil" => Len(ret[p].entries) >= 1
            /\ RowsAt(cache_entry, ret[p].chat_id, ret[p].message_id) = {}
                  => ret[p].err = "not_found" /\ ret[p].entries = <<>>

\* C4 witness: BuildFrom returned not-found for a key that is not cached while
\* another message of the same chat is.
C4_Witness ==
    \E p \in Procs :
        /\ ret[p].op = "build"
        /\ ret[p].err = "not_found"
        /\ ret[p].message_id # 0
        /\ RowsAt(cache_entry, ret[p].chat_id, ret[p].message_id) = {}
        /\ \E r \in cache_entry : r.chat_id = ret[p].chat_id

\* C5: every entry BuildFrom returns belongs to the chat it was called for,
\* and when the message id is cached in another chat only, BuildFrom returns
\* not-found, unless the database failed the lookup.
C5_CrossChatIsolation ==
    \A p \in Procs :
        (ret[p].op = "build" /\ ret[p].err # "db") =>
            /\ \A i \in 1..Len(ret[p].entries) :
                  ret[p].entries[i].chat_id = ret[p].chat_id
            /\ (/\ RowsAt(cache_entry, ret[p].chat_id, ret[p].message_id) = {}
                /\ \E r \in cache_entry : r.message_id = ret[p].message_id)
               => ret[p].err = "not_found"

\* C5 witness: BuildFrom returned not-found in one chat for a message id that
\* is cached in another chat.
C5_Witness ==
    \E p \in Procs :
        /\ ret[p].op = "build"
        /\ ret[p].err = "not_found"
        /\ RowsAt(cache_entry, ret[p].chat_id, ret[p].message_id) = {}
        /\ \E r \in cache_entry :
              r.message_id = ret[p].message_id /\ r.chat_id # ret[p].chat_id

\* The ingested rows of chat c hold the reply chain 1, ..., n: message k
\* replies to message k - 1 and message 1 replies to nothing.
IngestedChain(c, n) ==
    \A k \in 1..n :
        \E r \in RowsAt(cache_entries, c, k) :
            r.reply_id = IF k = 1 THEN NULL ELSE k - 1

\* C1: when BuildFrom(c, n) has returned, no lookup having failed in the
\* database, and the messages ingested in chat c
\* form the reply chain 1, ..., n, it returned without error exactly the n
\* ingested entries, oldest first.
C1_BuildReturnsIngestedChain ==
    \A p \in Procs, c \in Chats, n \in MsgIds :
        (/\ ret[p].op = "build"
         /\ ret[p].err # "db"
         /\ ret[p].chat_id = c
         /\ ret[p].message_id = n
         /\ IngestedChain(c, n))
        => /\ ret[p].err = "nil"
           /\ Len(ret[p].entries) = n
           /\ \A k \in 1..n :
                 \E r \in RowsAt(cache_entries, c, k) :
                    /\ ret[p].entries[k].message_id = k
                    /\ ret[p].entries[k].chat_id = c
                    /\ ret[p].entries[k].message = r.message

(***************************************************************************)
(* Properties of the message cache.                                        *)
(***************************************************************************)
\* The row holds one ingested payload as a whole: its key, reply link and
\* date are those of the message stored in it.
WholePayload(r) ==
    /\ r.chat_id = r.message.chat
    /\ r.message_id = r.message.message_id
    /\ r.reply_id = r.message.reply_to
    /\ r.date = r.message.date

\* C6: when two handlers have both returned from ingesting the same key,
\* exactly one row exists for that key, and it holds, as a whole, the payload
\* of one of the two.
C6_ConcurrentIngestOneRow ==
    \A p, q \in Procs :
        (/\ p # q
         /\ ret[p].op = "add" /\ ret[p].err # "unmarshal"
         /\ ret[q].op = "add" /\ ret[q].err # "unmarshal"
         /\ ret[p].chat_id = ret[q].chat_id
         /\ ret[p].message_id = ret[q].message_id)
        => /\ Cardinality(RowsAt(cache_entries, ret[p].chat_id, ret[p].message_id)) = 1
           /\ \A r \in RowsAt(cache_entries, ret[p].chat_id, ret[p].message_id) :
                 /\ WholePayload(r)
                 /\ r.message \in {ret[p].message, ret[q].message}

\* C6 witness: two handlers ingested different payloads for one key at the
\* same time: both looked the key up before either wrote, so the INSERT of
\* one of them was rejected by the unique index.
C6_Witness ==
    \E p, q \in Procs :
        /\ ret[p].op = "add" /\ ret[p].err = "nil"
        /\ ret[q].op = "add" /\ ret[q].err = "unique_violation"
        /\ ret[p].chat_id = ret[q].chat_id
        /\ ret[p].message_id = ret[q].message_id
        /\ ret[p].message # ret[q].message

C8_DuplicateIngestNeverErrors ==
    \A p \in Procs :
        (ret[p].op = "add" /\ ret[p].err # "unmarshal") => ret[p].err = "nil"

\* C9: an edit that returns for a cached entry keeps the entry's reply link
\* and every field of the stored message that the edit payload does not carry:
\* the reply-to reference, the sender when the payload has no sender, and the
\* text when the payload has no text.
C9_EditKeepsAbsentFields ==
    [][\A p \in Procs :
         (pc[p] = "edit_write" /\ pc'[p] = "idle")
         => \A old \in RowsAt(cache_entries, req[p].chat_id, req[p].message_id) :
               \E new \in cache_entries' :
                  /\ new.id = old.id
                  /\ new.reply_id = old.reply_id
                  /\ new.message.reply_to = old.message.reply_to
                  /\ new.message.from =
                        IF ret'[p].message.from # NilUser
                        THEN ret'[p].message.from ELSE old.message.from
                  /\ new.message.text =
                        IF ret'[p].message.text # ""
                        THEN ret'[p].message.text ELSE old.message.text
      ]_vars

\* C10: an edit that returns for a key that is not cached returns without
\* error and leaves the table as it was: the same rows with the same content.
C10_EditOfAbsentIsNoOp ==
    [][\A p \in Procs :
         (/\ ret'[p] # ret[p]
          /\ ret'[p].op = "edit"
          /\ ret'[p].err # "unmarshal"
          /\ RowsAt(cache_entries, ret'[p].chat_id, ret'[p].message_id) = {})
         => /\ ret'[p].err = "nil"
            /\ cache_entries' = cache_entries
      ]_vars

\* C10 witness: an edit returned without error for a key that is not cached,
\* while the same message id is cached in another chat.
C10_Witness ==
    \E p \in Procs :
        /\ ret[p].op = "edit"
        /\ ret[p].err = "nil"
        /\ ret[p].message_id # 0
        /\ RowsAt(cache_entries, ret[p].chat_id, ret[p].message_id) = {}
        /\ \E r \in cache_entries :
              r.message_id = ret[p].message_id /\ r.chat_id # ret[p].chat_id

\* C11: an edit for (chat B, m) that returns, returns without error and leaves
\* every entry stored under message id m in any other chat as it was.
C11_EditOtherChatUntouched ==
    [][\A p \in Procs :
         (/\ ret'[p] # ret[p]
          /\ ret'[p].op = "edit"
          /\ ret'[p].err # "unmarshal")
         => /\ ret'[p].err = "nil"
            /\ \A r \in cache_entries :
                  (r.message_id = ret'[p].message_id /\ r.chat_id # ret'[p].chat_id)
                  => r \in cache_entries'
      ]_vars

\* C11 witness: an edit returned for a cached key and its text is stored there,
\* while the same message id cached in another chat holds another text.
C11_Witness ==
    \E p \in Procs :
        /\ ret[p].op = "edit"
        /\ ret[p].err = "nil"
        /\ ret[p].message.text # ""
        /\ \E r \in RowsAt(cache_entries, ret[p].chat_id, ret[p].message_id) :
              r.message.text = ret[p].message.text
        /\ \E o \in cache_entries :
              /\ o.message_id = ret[p].message_id
              /\ o.chat_id # ret[p].chat_id
              /\ o.message.text # ret[p].message.text

\* The quote store with two concurrent callers of Store and a caller of
\* Delete.
NextStore ==
    \/ \E p \in Procs, c \in Chats, es \in StoreEntryLists :
          Store(p, c, "u1", es)
    \/ \E p \in Procs : StoreCreateEntry(p)
    \/ \E p \in Procs : StoreCommit(p)
    \/ \E p \in Procs : StoreReload(p)
    \/ \E id \in QuoteIds : Delete(id)

SpecStore == Init /\ [][NextStore]_vars

\* Quotes and the cache together, one handler at a time: messages are
\* ingested, ingested again, edited and evicted, and a quote is stored from a
\* message as it is cached at that moment.
SnapshotAddInputs ==
    CleanerAddInputs \cup {Raw(2, 1, 20, "a", "u2", NULL)}

SnapshotEditInputs == {Raw(2, 1, 20, "", "u1", NULL)}

NextSnapshot ==
    \/ \E raw \in SnapshotAddInputs : AddExecute("p1", raw)
    \/ AddExecuteWrite("p1")
    \/ \E raw \in SnapshotEditInputs : EditExecute("p1", raw)
    \/ EditExecuteWrite("p1")
    \/ AdvanceClock
    \/ CleanOnce
    \/ \E r \in cache_entries : Store("p1", r.chat_id, "u1", <<r.message>>)
    \/ StoreCreateEntry("p1")
    \/ StoreCommit("p1")
    \/ StoreReload("p1")

SpecSnapshot == Init /\ [][NextSnapshot]_vars

\* /addquote with one handler at a time: messages 1..MaxMsg of chat 1 are put
\* into table cache_entry, and the command is sent in chat 1 or 2, or with no
\* chat, in reply to a message of that chat or to none.
AddQuoteCommands ==
    {Command(c, "u2", r) :
        c \in {0} \cup Chats,
        r \in {ZeroMessage} \cup {Message(m, 1, 10, "a", "u1", NULL) : m \in MsgIds}
               \cup {Message(1, 2, 10, "a", "u1", NULL)}}

NextAddQuote ==
    \/ \E m \in MsgIds, r \in {NULL, 1} : CreateCacheEntry(1, m, r)
    \/ \E cmd \in {c \in AddQuoteCommands :
                        c.reply = ZeroMessage \/ c.reply.chat = c.chat} :
          AddQuoteHandle("p1", cmd)
    \/ BuildFromLoop("p1")
    \/ AddQuoteBuilt("p1")
    \/ StoreCreateEntry("p1")
    \/ StoreCommit("p1")
    \/ StoreReload("p1")
    \/ AddQuoteStored("p1")

SpecAddQuote == Init /\ [][NextAddQuote]_vars

\* /addquote in chat 1 or 2 in reply to message 1 or 2, the reply carrying
\* chat 1, chat 2 or no chat at all; message 1 of chat 1 can be in table
\* cache_entry.
ReplyCommands ==
    {Command(c, "u2", Message(m, rc, 10, "a", "u1", NULL)) :
        c \in Chats, m \in {1, 2}, rc \in {0} \cup Chats}

NextAddQuoteReply ==
    \/ CreateCacheEntry(1, 1, NULL)
    \/ \E cmd \in ReplyCommands : AddQuoteHandle("p1", cmd)
    \/ BuildFromLoop("p1")
    \/ AddQuoteBuilt("p1")
    \/ StoreCreateEntry("p1")
    \/ StoreCommit("p1")
    \/ StoreReload("p1")
    \/ AddQuoteStored("p1")

SpecAddQuoteReply == Init /\ [][NextAddQuoteReply]_vars

\* Readers of the quote store while quotes are stored and deleted.
NextReader ==
    \/ \E c \in Chats, es \in StoreEntryLists : Store("p1", c, "u1", es)
    \/ StoreCreateEntry("p1")
    \/ StoreCommit("p1")
    \/ StoreReload("p1")
    \/ \E id \in QuoteIds : GetByIDQuery("p2", id)
    \/ \E c \in Chats : GetRandomForChatQuery("p2", c)
    \/ ReaderPreload("p2")
    \/ \E c \in Chats : CountForChatQuery("p2", c)
    \/ \E id \in QuoteIds : Delete(id)

SpecReader == Init /\ [][NextReader]_vars

\* The name fields and texts of the documents rendered.
FirstNames == {"", "John"}
LastNames == {"", "Doe"}
Usernames == {"", "jd"}
RenderTexts == {"", "Hello world"}

\* The documents rendered: every combination of the fields with a date, one
\* without a date, and one that does not unmarshal.
Docs ==
    {Doc(TRUE, t, f, l, u, 90) :
        t \in RenderTexts, f \in FirstNames, l \in LastNames,
        u \in Usernames}
    \cup {Doc(TRUE, "Hello world", "John", "", "", 0),
          Doc(FALSE, "", "", "", "", 0)}

\* The quotes rendered: the nil quote, and quotes of 0 .. MaxEntries entries
\* loaded in ascending order.
RenderQuotes ==
    {NoQuote} \cup
    UNION {{[id |-> id, creator |-> "u1", chat_id |-> 1,
             entries |-> [k \in 1..n |-> QuoteEntry(k, k - 1, ds[k], id)]] :
               ds \in [1..n -> Docs], id \in {1, 42}} : n \in 0..MaxEntries}

NextRender ==
    /\ rendered.fn = "none"
    /\ \/ \E q \in RenderQuotes, includeID \in BOOLEAN : RenderCall(q, includeID)
       \/ \E q \in RenderQuotes : RenderSimpleCall(q)
       \/ \E q \in RenderQuotes : RenderWithDateCall(q)
       \/ \E f \in FirstNames, l \in LastNames, u \in Usernames :
             BuildAuthorNameCall(f, l, u)

SpecRender == Init /\ [][NextRender]_vars

\* The texts of the messages of the updates: no text, a text that is no
\* command, "/rquote", "/rquote@b", "/addquote x" and the unknown "/no".
UpdateTexts ==
    {<<>>,
     <<"h", "i">>,
     <<"/", "r", "q", "u", "o", "t", "e">>,
     <<"/", "r", "q", "u", "o", "t", "e", "@", "b">>,
     <<"/", "a", "d", "d", "q", "u", "o", "t", "e", " ", "x">>,
     <<"/", "n", "o">>}

\* The updates: messages and edited messages of each chat with each text,
\* channel posts and callback queries of each chat, and updates without a
\* chat.
Updates ==
    {Update(k, c, t) :
        k \in {"message", "edited_message"}, c \in Chats, t \in UpdateTexts}
    \cup {Update(k, c, <<>>) :
             k \in {"channel_post", "callback_query"}, c \in Chats}
    \cup {Update(k, 0, <<>>) : k \in {"callback_no_message", "poll", "nil"}}

NextFilter ==
    \/ \E a \in SUBSET Chats, l \in BOOLEAN : NewChatFilter(a, l)
    \/ \E u \in Updates : ChatFilterHandle(u)
    \/ \E a \in SUBSET Chats : NewDispatcher(a)
    \/ \E u \in Updates : DispatcherProcess(u)

SpecFilter == Init /\ [][NextFilter]_vars

\* A walk of BuildFrom by one process while rows are inserted into its table
\* and another process ingests, edits and sweeps the message cache.
\* The message ingested is old enough for the first sweep to delete it.
WalkAddInputs == {Raw(1, 1, 5, "a", "u1", NULL)}
WalkEditInputs == {Raw(1, 1, 5, "b", "u2", NULL)}

NextWalk ==
    \/ \E m \in MsgIds : \E r \in {NULL, m - 1} : CreateCacheEntry(1, m, r)
    \/ \E m \in MsgIds : BuildFrom("p1", 1, m)
    \/ BuildFromLoop("p1")
    \/ \E raw \in WalkAddInputs : AddExecute("p2", raw)
    \/ AddExecuteWrite("p2")
    \/ \E raw \in WalkEditInputs : EditExecute("p2", raw)
    \/ EditExecuteWrite("p2")
    \/ CleanOnce

SpecWalk == Init /\ [][NextWalk]_vars

\* Edits against ingests and sweeps: messages dated 10 and 20 are ingested by
\* one handler while another edits them with a payload dated 31, the clock
\* advances and the cache is swept.
EditSweepAddInputs ==
    {Raw(1, 1, 10, "a", "u1", NULL), Raw(2, 1, 20, "b", "u1", 1)}

EditSweepEditInputs ==
    {Raw(m, 1, 31, "c", f, NULL) : m \in {1, 2}, f \in {NilUser, "u2"}}

NextEdit ==
    \/ \E raw \in EditSweepAddInputs : AddExecute("p2", raw)
    \/ AddExecuteWrite("p2")
    \/ \E raw \in EditSweepEditInputs : EditExecute("p1", raw)
    \/ EditExecuteWrite("p1")
    \/ \E raw \in EditSweepEditInputs : ServiceEdit("p1", UnmarshalMessage(raw))
    \/ ServiceEditWrite("p1")
    \/ AdvanceClock
    \/ CleanOnce

SpecEdit == Init /\ [][NextEdit]_vars

\* The two wirings with an allowlist that is not empty: process p1 runs the
\* middleware chain of the bot and process p2 the Dispatcher, on messages and
\* edited messages of chat 1 and chat 2 and on a poll.
Allowlists == (SUBSET Chats) \ {{}}

WiringUpdates ==
    {MessageUpdate(k, Message(1, c, 10, t, "u1", NULL)) :
        k \in {"message", "edited_message"}, c \in Chats, t \in {"a", "b"}}
    \cup {Update("poll", 0, <<>>)}

NextWiring ==
    \/ \E a \in Allowlists, l \in BOOLEAN : NewChatFilter(a, l)
    \/ \E a \in Allowlists : NewDispatcher(a)
    \/ \E u \in WiringUpdates : BotHandleUpdate("p1", u)
    \/ \E u \in WiringUpdates : DispatcherHandleUpdate("p2", u)
    \/ \E p \in Procs : AddExecuteWrite(p)
    \/ \E p \in Procs : EditExecuteWrite(p)

SpecWiring == Init /\ [][NextWiring]_vars

\* The poller with the reader of its channel and the cancellation of its
\* context.
NextPoller ==
    \/ UpdatesStart
    \/ UpdatesSelectTop
    \/ UpdatesGetUpdates
    \/ UpdatesSend
    \/ UpdatesSendDone
    \/ DispatcherReceive
    \/ Cancel

SpecPoller == Init /\ [][NextPoller]_vars

\* The same with the scheduling of the goroutine that runs Start: a step of
\* Start that can run does run, GetUpdates returns, and a select with a ready
\* case takes one.  Nothing makes the reader take a batch.
SpecPollerLive ==
    /\ SpecPoller
    /\ WF_vars(UpdatesSelectTop)
    /\ WF_vars(UpdatesGetUpdates)
    /\ WF_vars(UpdatesSend \/ UpdatesSendDone)

\* Every operation of the bot, by any process and on any input.
Next ==
    \/ \E p \in Procs, raw \in AddInputs : AddExecute(p, raw)
    \/ \E p \in Procs : AddExecuteWrite(p)
    \/ \E p \in Procs, raw \in EditInputs : EditExecute(p, raw)
    \/ \E p \in Procs : EditExecuteWrite(p)
    \/ \E c \in Chats, m \in MsgIds, r \in Replies \cup {0} : CreateCacheEntry(c, m, r)
    \/ \E p \in Procs, c \in Chats, m \in MsgIds \cup {0} : BuildFrom(p, c, m)
    \/ \E p \in Procs : BuildFromLoop(p)
    \/ AdvanceClock
    \/ CleanOnce
    \/ Start
    \/ StartInitialClean
    \/ TickerFire
    \/ StartSelectTick
    \/ StartTickClean
    \/ StartSelectDone
    \/ Cancel
    \/ \E p \in Procs, c \in Chats, es \in StoreEntryLists : Store(p, c, "u1", es)
    \/ \E p \in Procs, c \in Chats :
          Store(p, c, "u1", [k \in 1..Len(ret[p].entries) |-> ret[p].entries[k].message])
    \/ \E p \in Procs : StoreCreateEntry(p)
    \/ \E p \in Procs : StoreCommit(p)
    \/ \E p \in Procs : StoreReload(p)
    \/ \E id \in QuoteIds : Delete(id)
    \/ \E p \in Procs, cmd \in AddQuoteCommands : AddQuoteHandle(p, cmd)
    \/ \E p \in Procs, raw \in EditSweepEditInputs :
          ServiceEdit(p, UnmarshalMessage(raw))
    \/ \E p \in Procs : ServiceEditWrite(p)
    \/ \E p \in Procs, u \in WiringUpdates : BotHandleUpdate(p, u)
    \/ \E p \in Procs, u \in WiringUpdates : DispatcherHandleUpdate(p, u)
    \/ UpdatesStart
    \/ UpdatesSelectTop
    \/ UpdatesGetUpdates
    \/ UpdatesSend
    \/ UpdatesSendDone
    \/ DispatcherReceive
    \/ \E p \in Procs : AddQuoteBuilt(p)
    \/ \E p \in Procs : AddQuoteStored(p)
    \/ \E p \in Procs, id \in QuoteIds : GetByIDQuery(p, id)
    \/ \E p \in Procs, c \in Chats : GetRandomForChatQuery(p, c)
    \/ \E p \in Procs : ReaderPreload(p)
    \/ \E p \in Procs, c \in Chats : CountForChatQuery(p, c)
    \/ \E q \in RenderQuotes, includeID \in BOOLEAN : RenderCall(q, includeID)
    \/ \E q \in RenderQuotes : RenderSimpleCall(q)
    \/ \E q \in RenderQuotes : RenderWithDateCall(q)
    \/ \E f \in FirstNames, l \in LastNames, u \in Usernames :
          BuildAuthorNameCall(f, l, u)
    \/ \E a \in SUBSET Chats, l \in BOOLEAN : NewChatFilter(a, l)
    \/ \E u \in Updates : ChatFilterHandle(u)
    \/ \E a \in SUBSET Chats : NewDispatcher(a)
    \/ \E u \in Updates : DispatcherProcess(u)

Spec == Init /\ [][Next]_vars

\* The error of the sweep a step runs, "none" when the step runs no sweep.
SweepErr ==
    IF cleaner'.sweeps # cleaner.sweeps THEN cleaner'.err
    ELSE IF once'.calls # once.calls THEN once'.err
    ELSE "none"

\* C12: a sweep that succeeds deletes every entry dated exactly
\* now - KeepDuration and retains every entry one second younger.
C12_BoundaryEntryDeleted ==
    [][SweepErr = "nil"
       => \A r \in cache_entries :
             /\ r.date = now - KeepDuration => r \notin cache_entries'
             /\ r.date = now - KeepDuration + 1 => r \in cache_entries'
      ]_vars

\* C13: a sweep that succeeds, by CleanOnce or by Start, deletes every entry
\* dated before now - KeepDuration, retains every entry dated after it and
\* leaves the table otherwise as it was; a sweep that finds no entry dated
\* before the cutoff leaves the table unchanged.
C13_SweepDeletesOldEntries ==
    [][SweepErr # "none"
       => /\ cache_entries' \subseteq cache_entries
          /\ SweepErr = "nil"
             => \A r \in cache_entries :
                   /\ r.date < now - KeepDuration => r \notin cache_entries'
                   /\ r.date > now - KeepDuration => r \in cache_entries'
          /\ (\A r \in cache_entries : ~(r.date < now - KeepDuration))
             => cache_entries' = cache_entries
      ]_vars

\* C13 witness: both messages were ingested, CleanOnce succeeded, and the
\* message dated 10 is gone while the message dated 20 is still cached.
C13_Witness ==
    /\ once.calls > 0
    /\ once.err = "nil"
    /\ cache_entries_seq = 3
    /\ RowsAt(cache_entries, 1, 1) = {}
    /\ \E r \in RowsAt(cache_entries, 1, 2) : r.date = 20 /\ r.date > now - KeepDuration

\* C14: once the context is cancelled a running Start returns the
\* cancellation error, with no tick and no passing of time needed for it, and
\* after it has returned it runs no sweep.
C14_StartReturnsOnCancel ==
    /\ (ctx_done /\ cleaner.pc # "idle")
          ~> (cleaner.pc = "returned" /\ cleaner.ret = "canceled")
    /\ [][cleaner.pc = "returned" => cleaner' = cleaner]_vars

\* C14 witness: Start has returned the cancellation error and its ticker
\* never sent a tick.
C14_Witness ==
    /\ cleaner.pc = "returned"
    /\ cleaner.ret = "canceled"
    /\ ticker.sent = 0

\* C15: Start has run no sweep, and its ticker has sent no tick, until the
\* initial sweep; from then on it has run one sweep more than the ticks it
\* received, the sweep of the tick just received being the one still to run.
C15_SweepOnStartAndEachTick ==
    /\ cleaner.pc \in {"idle", "initial_clean"}
          => cleaner.sweeps = 0 /\ cleaner.received = 0 /\ ticker.sent = 0
    /\ cleaner.pc \in {"select", "returned"}
          => cleaner.sweeps = 1 + cleaner.received
    /\ cleaner.pc = "tick_clean" => cleaner.sweeps = cleaner.received

\* C15 witness: Start received two ticks and has run three sweeps.
C15_Witness ==
    /\ cleaner.received = 2
    /\ cleaner.sweeps = 3

\* C16: a sweep of Start that fails leaves Start in its loop, where a waiting
\* tick can be received; Start has returned only with the context cancelled
\* and with the cancellation error.
C16_FailedSweepKeepsLoop ==
    /\ [](cleaner.pc = "returned" => ctx_done /\ cleaner.ret = "canceled")
    /\ [][(cleaner'.sweeps # cleaner.sweeps /\ cleaner'.err # "nil")
          => cleaner'.pc = "select"]_vars
    /\ []((cleaner.pc = "select" /\ ticker.pending) => ENABLED StartSelectTick)

\* C16 witness: the last sweep failed on a database error, the context is not
\* cancelled, and Start has received the next tick and is about to sweep.
C16_Witness ==
    /\ cleaner.err = "db"
    /\ ~ctx_done
    /\ cleaner.pc = "tick_clean"

\* C17: every quote row in table quote has at least one row in table
\* quote_entry, and the order values of its rows are exactly 0..N-1, one row
\* each; this holds while transactions of Store are open and after a Store
\* that failed.
C17_VisibleQuoteIsWhole ==
    \A q \in quote :
        LET rows == {e \in quote_entry : e.quote_id = q.id}
        IN  /\ rows # {}
            /\ {e.order : e \in rows} = 0..(Cardinality(rows) - 1)
            /\ \A e, f \in rows : e.order = f.order => e = f
            /\ Len(StoredQuote(q.id).entries) = Cardinality(rows)

\* C17 witness: a quote of two entries is visible while another Store has
\* written the first of its two entries in a transaction still open.
C17_Witness ==
    /\ \E q \in quote : Len(StoredQuote(q.id).entries) = 2
    /\ \E p \in Procs :
          /\ store[p].pc = "tx"
          /\ store[p].i = 1
          /\ Len(store[p].entries) = 2
          /\ \A q \in quote : q.id # store[p].quote_id

\* C18: a call of Store with an empty entry list returns the no-entries
\* error at once and leaves both tables, both id sequences and the quote
\* count of every chat as they were.
C18_EmptyStoreFails ==
    [][\A p \in Procs :
         (/\ store[p].pc = "idle"
          /\ store'[p] # store[p]
          /\ store'[p].entries = <<>>)
         => /\ store'[p].pc = "idle"
            /\ store'[p].err = "no_entries"
            /\ quote' = quote
            /\ quote_entry' = quote_entry
            /\ quote_seq' = quote_seq
            /\ quote_entry_seq' = quote_entry_seq
            /\ \A c \in Chats : CountForChat(c)' = CountForChat(c)
      ]_vars

\* C18 witness: Store returned the no-entries error for a chat that has a
\* quote.
C18_Witness ==
    \E p \in Procs :
        /\ store[p].err = "no_entries"
        /\ CountForChat(store[p].chatID) = 1

\* C19: when Store has returned a quote for N entries, the quote it returned
\* lists N entries, the k-th with order k-1 and the content of the k-th entry
\* given.
C19_StoreKeepsInputOrder ==
    \A p \in Procs :
        (store[p].pc = "idle" /\ store[p].err = "nil")
        => /\ Len(store[p].loaded) = Len(store[p].entries)
           /\ \A k \in 1..Len(store[p].entries) :
                 /\ store[p].loaded[k].order = k - 1
                 /\ store[p].loaded[k].message = store[p].entries[k]

\* The part of C19 about the rows: when the transaction of Store commits, the
\* quote has one row for each entry given, the k-th entry's content under
\* order k-1.
C19_PersistedInInputOrder ==
    [][\A p \in Procs :
         (store[p].pc = "tx" /\ store'[p].pc = "reload")
         => LET q == StoredQuote(store[p].quote_id)'
            IN  /\ Len(q.entries) = Len(store[p].entries)
                /\ \A k \in 1..Len(store[p].entries) :
                      /\ q.entries[k].order = k - 1
                      /\ q.entries[k].message = store[p].entries[k]
      ]_vars

\* C20: a step of Cache Ingest, of Cache Edit or of an eviction sweep leaves
\* every quote as a reader gets it unchanged: the same entries in the same
\* order with the same content.
C20_QuoteIsSnapshot ==
    [][(\/ cache_entries' # cache_entries
        \/ \E p \in Procs : ret'[p] # ret[p] /\ ret'[p].op \in {"add", "edit"}
        \/ SweepErr # "none")
       => \A id \in QuoteIds : StoredQuote(id)' = StoredQuote(id)
      ]_vars

\* C20 witness: one quote holds a message whose cache entry has been evicted,
\* another holds a message whose cache entry now has another content.
C20_Witness ==
    /\ \E q \in quote :
          LET m == StoredQuote(q.id).entries[1].message
          IN  RowsAt(cache_entries, m.chat, m.message_id) = {}
    /\ \E q \in quote :
          LET m == StoredQuote(q.id).entries[1].message
          IN  \E r \in RowsAt(cache_entries, m.chat, m.message_id) :
                 r.message # m

\* C21: when BuildFrom found no cache entry for the replied-to message, the
\* handler calls Store with the one entry made of that message, and when
\* Store succeeds it sends the confirmation for a quote of one entry, which
\* is then stored with exactly that message; the handler ends without
\* confirmation only when Store itself failed.
C21_CacheMissStoresReply ==
    [][\A p \in Procs :
         /\ (addquote[p].pc = "building" /\ addquote'[p].pc # "building"
               /\ ret[p].err # "nil")
            => /\ addquote'[p].pc \in {"storing"}
               /\ store'[p].entries = <<addquote[p].reply>>
               /\ store'[p].chatID = addquote[p].chatID
         /\ (addquote[p].pc = "storing" /\ addquote'[p].pc = "idle"
               /\ addquote[p].miss)
            => IF store[p].err = "nil"
               THEN /\ addquote'[p].out.kind = "confirmation"
                    /\ addquote'[p].out.count = 1
                    /\ LET q == StoredQuote(addquote'[p].out.quote_id)
                       IN  /\ q.id # 0
                           /\ q.chat_id = addquote[p].chatID
                           /\ Len(q.entries) = 1
                           /\ q.entries[1].message = addquote[p].reply
                    /\ quote' = quote
               ELSE addquote'[p].out.kind = "store_failed"
      ]_vars

\* C21 witness: the confirmation of a quote of one entry was sent after a
\* cache miss, while table cache_entry holds other messages of that chat.
C21_Witness ==
    \E p \in Procs :
        /\ addquote[p].miss
        /\ addquote[p].out.kind = "confirmation"
        /\ addquote[p].out.count = 1
        /\ RowsAt(cache_entry, addquote[p].chatID, addquote[p].reply.message_id) = {}
        /\ \E r \in cache_entry : r.chat_id = addquote[p].chatID

\* The SELECT of GetRandomForChat finds no row, and the call returns no quote
\* and no error, exactly when chat c has no stored quote, whatever the other
\* chats hold; otherwise the row it selects is a stored quote of chat c, and
\* every stored quote of chat c is a row it can select.
C22_SelectsQuoteOfChat ==
    /\ [][\A p \in Procs :
            (reader[p].pc = "idle" /\ reader'[p] # reader[p]
                /\ reader'[p].op = "random" /\ reader'[p].err # "db") =>
              LET c == reader'[p].arg
                  none == /\ reader'[p].pc = "idle"
                          /\ reader'[p].err = "nil"
                          /\ reader'[p].quote = NoQuote
              IN  /\ none <=> (\A q \in quote : q.chat_id # c)
                  /\ ~none =>
                        /\ reader'[p].pc = "preload"
                        /\ \E q \in quote : /\ q.id = reader'[p].quote.id
                                             /\ q.chat_id = c]_vars
    /\ [](\A p \in Procs :
            reader[p].pc = "idle" =>
               \A c \in Chats : \A q \in quote :
                  q.chat_id = c =>
                     ENABLED (/\ GetRandomForChatQuery(p, c)
                              /\ reader'[p].quote.id = q.id))

\* C22: GetRandomForChat(c) returns no quote and no error exactly when chat c
\* has no stored quote, whatever the other chats hold; otherwise it returns a
\* stored quote whose chat_id is c, and every stored quote of chat c is a
\* possible result.  (A statement the database fails returns its error.)
C22_RandomQuoteOfChat ==
    /\ C22_SelectsQuoteOfChat
    /\ [][\A p \in Procs :
            (reader[p].pc = "preload" /\ reader[p].op = "random"
                /\ reader'[p].pc = "idle" /\ reader'[p].err # "db") =>
              /\ reader'[p].err = "nil"
              /\ reader'[p].quote.id = reader[p].quote.id
              /\ reader'[p].quote.chat_id = reader[p].arg]_vars

\* C23: a quote row found by GetRandomForChat or GetByID is returned with
\* every entry row of the quote, each once, at positions 0 .. N-1 in ascending
\* order.  (A statement the database fails returns its error.)
C23_ReadersLoadAllEntries ==
    [][\A p \in Procs :
          (reader[p].pc = "preload" /\ reader'[p].pc = "idle"
              /\ reader'[p].err # "db") =>
            LET es == reader'[p].quote.entries
                rows == {e \in quote_entry : e.quote_id = reader[p].quote.id}
            IN  /\ reader'[p].err = "nil"
                /\ Len(es) = Cardinality(rows)
                /\ {es[k] : k \in 1..Len(es)} = rows
                /\ \A k \in 1..Len(es) : es[k].order = k - 1]_vars

C25_DeleteCascades ==
    [][\A id \in QuoteIds :
          ((\E q \in quote : q.id = id) /\ ~(\E q \in quote' : q.id = id)) =>
             /\ \A e \in quote_entry' : e.quote_id # id
             /\ quote' = {q \in quote : q.id # id}
             /\ quote_entry' = {e \in quote_entry : e.quote_id # id}
             /\ \A o \in QuoteIds \ {id} : StoredQuote(o)' = StoredQuote(o)]_vars

\* A stored quote of two entries has been deleted, rows and all, while another
\* quote and its entries are still there.
C25_Witness ==
    \E p \in Procs :
       /\ store[p].pc = "idle"
       /\ store[p].err = "nil"
       /\ Len(store[p].loaded) = MaxEntries
       /\ \A q \in quote : q.id # store[p].quote_id
       /\ \A e \in quote_entry : e.quote_id # store[p].quote_id
       /\ \E q \in quote : \E e \in quote_entry : e.quote_id = q.id

\* C26: the author name is the first name, followed by a space and the last
\* name when there is one; the last name alone without a first name;
\* "@" and the username when there is no name field; "Unknown" when there is
\* no field at all.  A name field goes before the username.
C26_AuthorName ==
    rendered.fn = "buildAuthorName" =>
       LET f == rendered.first
           l == rendered.last
           u == rendered.username
       IN  /\ (f # "" /\ l # "") => rendered.text = f \o " " \o l
           /\ (f # "" /\ l = "") => rendered.text = f
           /\ (f = "" /\ l # "") => rendered.text = l
           /\ (f = "" /\ l = "" /\ u # "") => rendered.text = "@" \o u
           /\ (f = "" /\ l = "" /\ u = "") => rendered.text = "Unknown"

\* The name of a user with a first name and a username is the first name.
C26_Witness ==
    /\ rendered.fn = "buildAuthorName"
    /\ rendered.first = "John"
    /\ rendered.last = ""
    /\ rendered.username = "jd"
    /\ rendered.text = "John"

\* The line of one entry.
C27_Line(entry) ==
    buildAuthorName(entry.message.first_name, entry.message.last_name,
                    entry.message.username)
    \o ": " \o (CASE entry.message.text = "" -> "(no text)"
                  [] OTHER -> entry.message.text)

\* The lines of one or more entries, each after a newline but the first.
RECURSIVE C27_Lines(_)
C27_Lines(es) ==
    IF Len(es) = 1 THEN C27_Line(es[1])
    ELSE C27_Lines(SubSeq(es, 1, Len(es) - 1)) \o "\n" \o C27_Line(es[Len(es)])

\* C27: Render gives one line "<AuthorName>: <Text>" per entry, the lines
\* joined by a newline in the order of the entries, "(no text)" for an empty
\* or absent text (after the line of the id when that is asked for), and
\* EntryCount is the number of entries.
C27_RenderLines ==
    (/\ rendered.fn = "Render"
     /\ rendered.quote # NoQuote
     /\ Len(rendered.quote.entries) > 0
     /\ \A k \in 1..Len(rendered.quote.entries) :
           rendered.quote.entries[k].message.parseable) =>
       LET es == rendered.quote.entries
           head == IF rendered.includeID
                   THEN "#" \o ToString(rendered.quote.id) \o "\n" ELSE ""
       IN  /\ rendered.err = "nil"
           /\ rendered.count = Len(es)
           /\ \A k \in 1..Len(es) : es[k].order = k - 1
           /\ rendered.text = head \o C27_Lines(es)

\* Two entries rendered, the second without a text.
C27_Witness ==
    /\ rendered.fn = "Render"
    /\ ~rendered.includeID
    /\ rendered.count = 2
    /\ rendered.text = "John Doe: Hello world\n@jd: (no text)"

\* C28: Render, RenderSimple and RenderWithDate return an error and no text
\* for the nil quote and for a quote without entries.
C28_NoQuoteNoText ==
    (/\ rendered.fn \in {"Render", "RenderSimple", "RenderWithDate"}
     /\ \/ rendered.quote = NoQuote
        \/ Len(rendered.quote.entries) = 0) =>
       /\ rendered.err \in {"nil_quote", "no_entries"}
       /\ rendered.err = "nil_quote" <=> rendered.quote = NoQuote
       /\ rendered.text = ""
       /\ rendered.count = 0

\* RenderWithDate was given a quote without entries.
C28_Witness ==
    /\ rendered.fn = "RenderWithDate"
    /\ rendered.quote # NoQuote
    /\ Len(rendered.quote.entries) = 0
    /\ rendered.err = "no_entries"

\* C29: with a non-empty allowlist the next handler of the chat filter is
\* not invoked, and the dispatcher executes no command, for an update of a
\* chat that is not in the allowlist; the next handler is invoked for every
\* update of a chat that is in it, and the dispatcher executes the registered
\* command of a message of such a chat; with an empty allowlist the same
\* holds for every chat.
C29_AllowlistGatesHandlers ==
    /\ (chatfilter.built /\ chatfilter.update.kind \in ChatKinds) =>
          LET c == chatfilter.update.chat
          IN  /\ (chatfilter.allowed # {} /\ c \notin chatfilter.allowed) =>
                    ~chatfilter.next
              /\ (chatfilter.allowed # {} /\ c \in chatfilter.allowed) =>
                    chatfilter.next
              /\ chatfilter.allowed = {} => chatfilter.next
    /\ (dispatcher.built /\ dispatcher.update # NoUpdate) =>
          LET c == dispatcher.update.chat
              command == /\ dispatcher.update.kind \in
                                       {"message", "edited_message"}
                         /\ dispatcher.update.text \in
                               {<<"/", "r", "q", "u", "o", "t", "e">>,
                                <<"/", "r", "q", "u", "o", "t", "e", "@", "b">>,
                                <<"/", "a", "d", "d", "q", "u", "o", "t", "e",
                                  " ", "x">>}
          IN  /\ (dispatcher.allowed # {} /\ c \notin dispatcher.allowed) =>
                    ~dispatcher.executed
              /\ (command /\ dispatcher.allowed # {}
                     /\ c \in dispatcher.allowed) => dispatcher.executed
              /\ (command /\ dispatcher.allowed = {}) => dispatcher.executed

\* With allowlist {1}: the filter has dropped a message of chat 2 and the
\* dispatcher has executed the command of a message of chat 1.
C29_Witness ==
    /\ chatfilter.allowed = {1}
    /\ chatfilter.update.kind = "message"
    /\ chatfilter.update.chat = 2
    /\ ~chatfilter.next
    /\ dispatcher.allowed = {1}
    /\ dispatcher.update.chat = 1
    /\ dispatcher.executed

\* C30: Ingest and Edit of a payload that does not parse return the failure
\* and leave the cache as it was: no entry is created, changed or removed.
C30_MalformedLeavesCache ==
    /\ [][\A p \in Procs :
            (ret'[p] # ret[p] /\ ret'[p].err = "unmarshal") =>
               /\ pc'[p] = "idle"
               /\ cache_entries' = cache_entries
               /\ cache_entries_seq' = cache_entries_seq
               /\ cache_entry' = cache_entry]_vars
    /\ [](pc["p1"] = "idle" =>
            /\ ENABLED (/\ AddExecute("p1", Malformed)
                        /\ ret'["p1"].op = "add"
                        /\ ret'["p1"].err = "unmarshal")
            /\ ~ENABLED (/\ AddExecute("p1", Malformed)
                         /\ ret'["p1"].err # "unmarshal")
            /\ ENABLED (/\ EditExecute("p1", Malformed)
                        /\ ret'["p1"].op = "edit"
                        /\ ret'["p1"].err = "unmarshal")
            /\ ~ENABLED (/\ EditExecute("p1", Malformed)
                         /\ ret'["p1"].err # "unmarshal"))
    /\ [](\A r \in cache_entries : r.chat_id \in Chats)

\* Edit has failed on a payload that does not parse while the cache holds
\* two entries.
C30_Witness ==
    /\ ret["p1"].op = "edit"
    /\ ret["p1"].err = "unmarshal"
    /\ pc["p1"] = "idle"
    /\ Cardinality(cache_entries) = 2

\* C32: a BuildFrom that a lookup failed for, with an error of the database
\* that is not not-found, has returned that error and no entries, also when
\* the walk had collected entries before.
C32_LookupFailureReturnsNoChain ==
    \A p \in Procs :
       /\ (ret[p].op = "build" /\ ret[p].err # "nil") => ret[p].entries = <<>>
       /\ (ret[p].op = "build" /\ ret[p].err = "db") => pc[p] = "idle"

\* BuildFrom has returned the database's error after it had collected an
\* entry.
C32_Witness ==
    \E p \in Procs :
       /\ ret[p].op = "build"
       /\ ret[p].err = "db"
       /\ pc[p] = "idle"
       /\ Len(walk[p].entries) >= 1
       /\ ret[p].entries = <<>>

\* The entries are linked: each one is the message the next one replies to,
\* and the last one is message messageID of chat chatID.
C31_Linked(entries, chatID, messageID) ==
    /\ \A i \in 1..(Len(entries) - 1) :
          entries[i].message_id = entries[i + 1].reply_id
    /\ \A i \in 1..Len(entries) : entries[i].chat_id = chatID
    /\ Len(entries) >= 1 => entries[Len(entries)].message_id = messageID

\* C31: whatever is ingested, edited, swept or inserted while BuildFrom
\* walks, the entries it has collected, and the entries it returns without
\* error, are linked: a result is not empty, its last entry is the entry of
\* the starting message, and the message_id of each entry is the reply_id of
\* the entry after it.
C31_WalkIsLinkedChain ==
    \A p \in Procs :
       /\ pc[p] = "build_loop" =>
             C31_Linked(walk[p].entries, walk[p].chatID, walk[p].messageID)
       /\ (ret[p].op = "build" /\ ret[p].err = "nil") =>
             /\ Len(ret[p].entries) >= 1
             /\ C31_Linked(ret[p].entries, ret[p].chat_id, ret[p].message_id)

\* BuildFrom has returned two entries after the cache was swept and while an
\* ingest is under way.
C31_Witness ==
    /\ ret["p1"].op = "build"
    /\ ret["p1"].err = "nil"
    /\ Len(ret["p1"].entries) = 2
    /\ Cardinality(cache_entry) = 2
    /\ once.calls >= 1
    /\ pc["p2"] = "add_write"

\* C33: the handler takes the fallback only when BuildFrom reported that no
\* cache entry was found: no quote row is committed by a handler whose
\* BuildFrom returned the error of a failed lookup.
C33_FallbackOnlyOnNotFound ==
    \A p \in Procs :
       (addquote[p].pc = "storing" /\ addquote[p].miss /\ ret[p].err = "db")
          => \A q \in quote : q.id # store[p].quote_id

\* C34: the quote row a handler has committed has the chat_id of the chat
\* the command was sent in, on the cache-hit path and on the fallback path.
C34_QuoteInCommandChat ==
    \A p \in Procs : \A q \in quote :
       (addquote[p].pc = "storing" /\ q.id = store[p].quote_id)
          => q.chat_id = addquote[p].chatID

\* The part of C34 that holds: a quote built from the cache has the chat_id
\* of the command's chat.
C34_CacheHitInCommandChat ==
    \A p \in Procs : \A q \in quote :
       (addquote[p].pc = "storing" /\ ~addquote[p].miss
           /\ q.id = store[p].quote_id)
          => q.chat_id = addquote[p].chatID

\* The rows of the call that process p has in progress.
C35_RowsOfCall(p, quotes, entries) ==
    {q \in quotes : q.id = store[p].quote_id}
        \cup {e \in entries : e.quote_id = store[p].quote_id}

\* C35: whenever Store returns an error, no quote row and no entry row
\* created by that call remains in the tables.
C35_FailedStoreLeavesNothing ==
    [][\A p \in Procs :
          (store'[p] # store[p] /\ store'[p].pc = "idle"
              /\ store'[p].err # "nil")
             => IF store[p].pc = "idle"
                THEN quote' = quote /\ quote_entry' = quote_entry
                ELSE C35_RowsOfCall(p, quote', quote_entry') = {}]_vars

\* The part of C35 that holds: an error from inside the transaction, or from
\* the check before it, leaves no row of the call.
C35_FailedTransactionLeavesNothing ==
    [][\A p \in Procs :
          (store'[p] # store[p] /\ store'[p].pc = "idle"
              /\ store'[p].err \in {"no_entries", "create_quote",
                                    "create_entry", "commit"})
             => IF store[p].pc = "idle"
                THEN quote' = quote /\ quote_entry' = quote_entry
                ELSE C35_RowsOfCall(p, quote', quote_entry') = {}]_vars

\* A step of an edit by process p: its lookup, with or without an entry
\* found, or its write.
C36_EditStep(p) ==
    \/ pc[p] \in {"edit_write", "service_edit_write"} /\ pc'[p] = "idle"
    \/ pc[p] = "idle" /\ pc'[p] \in {"edit_write", "service_edit_write"}
    \/ /\ pc[p] = "idle" /\ pc'[p] = "idle"
       /\ ret'[p] # ret[p]
       /\ ret'[p].op \in {"edit", "service_edit"}

\* The keys of the rows of a table.
C36_Keys(table) == {<<r.chat_id, r.message_id>> : r \in table}

\* C36: no step of an edit creates a cache entry, whatever ingests and sweeps
\* ran before it or between its lookup and its write: the table has no more
\* rows after the step, and no key and no row id that it did not have before.
C36_EditNeverCreates ==
    [][\A p \in Procs :
          C36_EditStep(p) =>
             /\ Cardinality(cache_entries') <= Cardinality(cache_entries)
             /\ C36_Keys(cache_entries') \subseteq C36_Keys(cache_entries)
             /\ {r.id : r \in cache_entries'} \subseteq {r.id : r \in cache_entries}
             /\ cache_entries_seq' = cache_entries_seq]_vars

\* An edit has found its entry and a sweep has deleted that entry before the
\* edit's write.
C36_Witness ==
    /\ pc["p1"] \in {"edit_write", "service_edit_write"}
    /\ found["p1"].id # 0
    /\ \A r \in cache_entries : r.id # found["p1"].id
    /\ once.calls >= 1

\* The columns of a row other than its message.
C37_Columns(r) == <<r.id, r.chat_id, r.message_id, r.reply_id, r.date>>

\* C37: a step of an edit changes nothing but the message of the entry it
\* found: the rows keep their chat_id, message_id, reply_id and date, every
\* other row is unchanged, and the rows a sweep at any instant would leave
\* are the same rows as before the edit.
C37_EditChangesOnlyMessage ==
    [][\A p \in Procs :
          C36_EditStep(p) =>
             /\ {C37_Columns(r) : r \in cache_entries'}
                   = {C37_Columns(r) : r \in cache_entries}
             /\ \A r \in cache_entries :
                   r.id # found[p].id => r \in cache_entries'
             /\ \A t \in Times :
                   {r.id : r \in clean(cache_entries', t, "nil")}
                      = {r.id : r \in clean(cache_entries, t, "nil")}]_vars

\* The entry of message 2, a reply to message 1 dated 20, has been edited
\* with a payload dated 31 that carries no reply: its text is the edit's and
\* its reply_id and date are as ingested, while the entry of message 1 is
\* as ingested.
C37_Witness ==
    /\ ret["p1"].op \in {"edit", "service_edit"}
    /\ \E r \in cache_entries :
          /\ r.message_id = 2 /\ r.message.text = "c"
          /\ r.reply_id = 1 /\ r.date = 20
    /\ \E r \in cache_entries :
          r.message_id = 1 /\ r.message.text = "a"

\* The chats the wirings that are built allow.
C38_Allowed ==
    (IF chatfilter.built THEN chatfilter.allowed ELSE {})
        \cup (IF dispatcher.built THEN dispatcher.allowed ELSE {})

\* C38: with allowlists that are not empty, every cache entry is of a chat
\* that an allowlist names, whether the update came through the middleware
\* chain of the bot or through the Dispatcher.
C38_NoEntryOutsideAllowlist ==
    \A r \in cache_entries : r.chat_id \in C38_Allowed

\* The part of C38 that holds: the middleware chain, run by process p1,
\* hands the cache no message of a chat outside the allowlist of the filter.
C38_ChainKeepsAllowlist ==
    pc["p1"] \in {"add_write", "edit_write"}
       => req["p1"].chat_id \in chatfilter.allowed

\* C39: once the context is cancelled a running Updates.Start returns the
\* cancellation error, also from a send that waits for room in the channel
\* and also when every GetUpdates fails; after it has returned it sends no
\* batch and does nothing else.
C39_PollerReturnsOnCancel ==
    /\ (ctx_done /\ poller.pc # "idle")
          ~> (poller.pc = "returned" /\ poller.ret = "canceled")
    /\ [][poller.pc = "returned" =>
             poller' = poller /\ Len(outCh') <= Len(outCh)]_vars

\* Start has returned the cancellation error from the select around the
\* send, with the channel full.
C39_Witness ==
    /\ poller.pc = "returned"
    /\ poller.ret = "canceled"
    /\ poller.at = "send"
    /\ ctx_done
    /\ Len(outCh) = MaxOutCh

====
